---- MODULE Spec2Model ----
(***************************************************************************)
(* Enterprise-Zapp: signal evaluation and risk scoring (src/src/analyzer.py)*)
(*                                                                         *)
(* Conventions of the model                                                *)
(*  - a Python dict is a TLA+ function whose DOMAIN is the set of keys     *)
(*    present, so dict.get(k, default) is Get(d, k, default);              *)
(*  - an Optional value is <<>> (None) or <<v>>;                           *)
(*  - display names and redirect URIs are sequences of code points, so     *)
(*    that lower(), startswith() and "in" act on characters;               *)
(*  - a timestamp text is a record [tag, t, off]: tag says what kind of    *)
(*    text it is, t is the wall time it spells (in ticks) and off the UTC  *)
(*    offset it spells;                                                    *)
(*  - time is counted in ticks, TicksPerDay ticks to the day;              *)
(*  - each call of _utcnow() returns the next element of a sequence of     *)
(*    clock readings, which never decreases along the sequence;            *)
(*  - Signal.title and Signal.detail, and the AppResult fields tags,       *)
(*    description and notes, are display text and are not modelled.        *)
(***************************************************************************)
EXTENDS Integers, Sequences, FiniteSets, TLC

VARIABLES
    pc,              \* position of the caller: which call has returned
    clock,           \* the wall clock (ticks) when the call starts
    arg_sp,          \* the enriched service principal record given to analyze_app
    arg_stale_days,  \* the stale threshold given to analyze_app / analyze_all
    utc_reads,       \* the values the successive _utcnow() calls returned
    ret_app,         \* the AppResult analyze_app returned
    arg_score,       \* the argument of _risk_band
    ret_band,        \* the value _risk_band returned
    arg_raw_data,    \* the snapshot given to analyze_all
    ret_all,         \* the list analyze_all returned
    ret_counts,      \* the mapping band_counts returned
    arg_ca_policies, \* the raw policy list given to analyze_ca_coverage
    arg_ca_apps,     \* the app list given to analyze_ca_coverage
    ret_ca,          \* the pair analyze_ca_coverage returned
    get_attempt,     \* GraphClient._get: the value `attempt` takes next
    get_sent,        \* GraphClient._get: how many requests it has sent
    get_log,         \* GraphClient._get: what each request came back with
    get_outcome      \* GraphClient._get: what the call returned or raised

vars == <<pc, clock, arg_sp, arg_stale_days, utc_reads, ret_app, arg_score, ret_band,
          arg_raw_data, ret_all, ret_counts, arg_ca_policies, arg_ca_apps, ret_ca,
          get_attempt, get_sent, get_log, get_outcome>>

\* the arguments and the result of analyze_ca_coverage
ca_vars == <<arg_ca_policies, arg_ca_apps, ret_ca>>

\* analyze_ca_coverage is not being called
CaIdle == arg_ca_policies = <<>> /\ arg_ca_apps = <<>> /\ ret_ca = <<>>

\* the state of a GraphClient._get call
get_vars == <<get_attempt, get_sent, get_log, get_outcome>>

\* no _get call is running
GetIdle == get_attempt = 0 /\ get_sent = 0 /\ get_log = <<>> /\ get_outcome = <<>>

\* ── Bounds of the model ──────────────────────────────────────────────────
TicksPerDay == 2
MaxDrift == 1
MaxCreds == 2
MaxApps == 3
MaxScoreArg == 110
MaxPolicies == 2
MaxCaApps == 2

\* ── Constants of analyzer.py ─────────────────────────────────────────────
DEFAULT_STALE_DAYS == 90
NEAR_EXPIRY_DAYS == 30
NEAR_EXPIRY_WARN_DAYS == 90

MICROSOFT_TENANT_IDS ==
    { "f8cdef31-a31e-4b4a-93e4-5f571e91255a",
      "47df5bb7-e6bc-4256-afb0-dd8c8e3c1ce8",
      "cdc5aeea-15c5-4db6-b079-fcadd2505dc2",
      "72f988bf-86f1-41af-91ab-2d7cd011db47" }

HIGH_PRIVILEGE_ROLE_IDS ==
    { "9e3f62cf-ca93-4989-b6ce-bf83c28f9fe8",
      "62a82d76-70ea-41e2-9197-370581804d09",
      "1bfefb4e-e0b5-418b-a88f-73c46d2cc8e9",
      "9492366f-7969-46a4-8d15-ed1a20078fff",
      "741f803b-c850-494e-b5df-cde7c675a1ca",
      "e1fe6dd8-ba31-4d61-89e7-88639da4683d",
      "df021288-bdef-4463-88db-98f22de89214",
      "19dbc75e-c2e2-444c-a770-ec69d8559fc7",
      "06b708a9-e830-4db3-a914-8e69da51d44f",
      "50483e42-d915-4231-9212-7c7c36c48b57",
      "c79f8feb-a9db-4090-85f9-90d820caa0eb" }

HIGH_PRIVILEGE_DELEGATED_SCOPES ==
    { "Directory.ReadWrite.All",
      "User.ReadWrite.All",
      "Mail.ReadWrite",
      "Mail.ReadWriteShared",
      "Files.ReadWrite.All",
      "Sites.FullControl.All",
      "RoleManagement.ReadWrite.Directory",
      "Group.ReadWrite.All",
      "Application.ReadWrite.All" }

\* ── Python values ────────────────────────────────────────────────────────
None == <<>>
Some(v) == <<v>>

Get_account_enabled_falsy(d, k, default) ==
    IF k \in DOMAIN d THEN d[k] ELSE IF k = "accountEnabled" THEN FALSE ELSE default

\* dict.get(k, default)
Get(d, k, default) == IF k \in DOMAIN d THEN d[k] ELSE default

\* the empty dict
EmptyDict == <<>>

\* Timestamp texts.
TsNone == [tag |-> "none", t |-> 0, off |-> 0]          \* None / key absent
TsEmpty == [tag |-> "empty", t |-> 0, off |-> 0]        \* ""
TsBad == [tag |-> "malformed", t |-> 0, off |-> 0]      \* "not-a-date"
TsZ(t) == [tag |-> "z", t |-> t, off |-> 0]             \* "...T..:..:..Z"
TsOff(t, off) == [tag |-> "offset", t |-> t, off |-> off] \* "...T..:..:..+hh:mm"
\* ISO text whose instant, moved to UTC, is outside datetime's years 1..9999
TsOutOfRange == [tag |-> "out_of_range", t |-> 0, off |-> 0]  \* "0001-01-01T00:00:00+14:00"

\* bool(value) of a timestamp text
Truthy(value) == value.tag \notin {"none", "empty"}

\* a or b
PyOr(a, b) == IF Truthy(a) THEN a ELSE b

\* str.lower() on a sequence of code points
lower(s) == [i \in DOMAIN s |-> IF s[i] >= 65 /\ s[i] <= 90 THEN s[i] + 32 ELSE s[i]]

\* str.startswith(prefix)
startswith(s, prefix) ==
    /\ Len(s) >= Len(prefix)
    /\ \A i \in 1..Len(prefix) : s[i] = prefix[i]

\* Python's < on strings: lexicographic by code point
StrLess(a, b) ==
    \E k \in 1..(Len(b)) :
        /\ \A i \in 1..(k - 1) : i <= Len(a) /\ a[i] = b[i]
        /\ k - 1 <= Len(a)
        /\ (k > Len(a) \/ a[k] < b[k])

\* ── Helpers of analyzer.py ───────────────────────────────────────────────

\* _parse_dt raises: fromisoformat accepts the text and astimezone(timezone.utc)
\* raises OverflowError, which `except (ValueError, TypeError)` lets through
_parse_dt_raises(value) == Truthy(value) /\ value.tag = "out_of_range"

\* _parse_dt where it returns: None for None, "" and text fromisoformat
\* rejects, else the UTC instant
_parse_dt(value) ==
    IF ~Truthy(value) THEN None
    ELSE IF value.tag = "malformed" THEN None
    ELSE Some(value.t - value.off)

\* _days_since; utcnow is what its call of _utcnow() returns
_days_since(dt, utcnow) ==
    IF dt = None THEN None ELSE Some((utcnow - dt[1]) \div TicksPerDay)

\* _days_until; utcnow is what its call of _utcnow() returns
_days_until(dt, utcnow) ==
    IF dt = None THEN None ELSE Some((dt[1] - utcnow) \div TicksPerDay)

_risk_band_off_by_one(s) ==
    IF s > 75 THEN "critical"
    ELSE IF s > 50 THEN "high"
    ELSE IF s > 25 THEN "medium"
    ELSE IF s > 0 THEN "low"
    ELSE "clean"

_risk_band(s) ==
    IF s >= 75 THEN "critical"
    ELSE IF s >= 50 THEN "high"
    ELSE IF s >= 25 THEN "medium"
    ELSE IF s > 0 THEN "low"
    ELSE "clean"

\* severity_order of _primary_recommendation
severity_order == <<"critical", "high", "medium", "low", "info">>

\* the recs table of _recommendation_for_signal (dashes are written in ASCII)
recs ==
    [ never_signed_in |-> "Review whether this app was ever needed. If not in use, disable then delete.",
      stale |-> "Verify with the app owner whether this is still in use. If unused, disable and plan for removal.",
      no_owners |-> "Assign at least two owners to this app to ensure accountability.",
      disabled_owner |-> "Update app ownership - current owners are disabled accounts.",
      no_assignments |-> "If this app requires user/group access, add assignments. Otherwise consider whether it is still needed.",
      disabled_sp |-> "If the app is intentionally decommissioned, delete the service principal to reduce attack surface.",
      expired_secret |-> "Rotate or remove expired client secrets immediately.",
      expired_cert |-> "Rotate or remove expired certificates immediately.",
      near_expiry_secret |-> "Rotate client secret before expiry to avoid service disruption.",
      near_expiry_cert |-> "Rotate certificate before expiry to avoid service disruption.",
      high_privilege_stale |-> "High-privilege app with no recent sign-in activity - investigate necessity and disable if unused.",
      long_lived_secret |-> "Replace long-lived secrets with shorter-lived credentials to reduce breach impact.",
      expiry_warning_secret |-> "Client secret expiring in 30-90 days - schedule rotation now to avoid last-minute disruption.",
      expiry_warning_cert |-> "Certificate expiring in 30-90 days - schedule rotation now to avoid last-minute disruption.",
      no_reply_urls |-> "This app has credentials but no redirect URIs configured. Verify it is an intentional service/daemon app. If not in use, consider removal.",
      wildcard_redirect_uri |-> "Remove wildcard or localhost redirect URIs - these enable token theft via open redirect attacks.",
      excessive_delegated_permissions |-> "Review and restrict delegated permissions. High-privilege delegated scopes grant broad access when users consent. Remove scopes not actively needed.",
      implicit_grant_enabled |-> "Disable implicit grant flows in the app registration's Authentication blade. Migrate to authorization code flow with PKCE.",
      multi_tenant_app |-> "Confirm this app must accept external tenant logins. If it only serves your organisation, restrict to 'Accounts in this organizational directory only' in the app registration manifest.",
      mixed_credential_types |-> "This app has both client secrets and certificates. Remove any credentials that are no longer needed - each live credential is an independent attack vector.",
      microsoft_first_party |-> "Microsoft first-party app - verify this service is still required and review any security signals flagged above." ]

_recommendation_for_signal(key, account_enabled) ==
    Get(recs, key, "Review and remediate flagged issues.")

NO_ISSUES_MESSAGE == "No issues detected. Periodic review recommended."
FIRST_PARTY_MESSAGE == "Microsoft first-party app - verify this service is still required in your tenant."

\* the smallest element of a non-empty set of integers
MinOf(S) == CHOOSE m \in S : \A n \in S : m <= n

\* the nested loops of _primary_recommendation, from severity_order[k] on
RECURSIVE ScanSeverities(_, _, _)
ScanSeverities(active_signals, k, account_enabled) ==
    IF k > Len(severity_order) THEN "Review flagged signals and remediate as appropriate."
    ELSE LET hits == { i \in DOMAIN active_signals :
                          active_signals[i].severity = severity_order[k] }
         IN  IF hits # {}
             THEN _recommendation_for_signal(active_signals[MinOf(hits)].key, account_enabled)
             ELSE ScanSeverities(active_signals, k + 1, account_enabled)

IsNotMarker(s) == s.key # "microsoft_first_party"

_primary_recommendation_first_signal(signals, account_enabled) ==
    IF signals = <<>> THEN NO_ISSUES_MESSAGE
    ELSE LET active_signals == SelectSeq(signals, IsNotMarker)
         IN  IF active_signals = <<>> THEN FIRST_PARTY_MESSAGE
             ELSE _recommendation_for_signal(active_signals[1].key, account_enabled)

_primary_recommendation(signals, account_enabled) ==
    IF signals = <<>> THEN NO_ISSUES_MESSAGE
    ELSE LET is_microsoft == \E i \in DOMAIN signals : signals[i].key = "microsoft_first_party"
             active_signals == IF is_microsoft THEN SelectSeq(signals, IsNotMarker) ELSE signals
         IN  IF active_signals = <<>> THEN FIRST_PARTY_MESSAGE
             ELSE ScanSeverities(active_signals, 1, account_enabled)

\* ── analyze_app ──────────────────────────────────────────────────────────

\* Signal(key=, severity=, score_contribution=)
Signal(key, severity, score_contribution) ==
    [key |-> key, severity |-> severity, score_contribution |-> score_contribution]

Fire_without_increment(acc, sig, inc) ==
    [signals |-> Append(acc.signals, sig), score |-> acc.score]

\* signals.append(sig); score += inc       (acc holds the locals signals and score)
Fire(acc, sig, inc) ==
    [signals |-> Append(acc.signals, sig), score |-> acc.score + inc]

\* if cond: signals.append(sig); score += inc
FireIf(cond, acc, sig, inc) == IF cond THEN Fire(acc, sig, inc) ELSE acc

\* signals.append(sig) of the two informational markers, which add nothing to score
Mark(acc, sig) ==
    [signals |-> Append(acc.signals, sig), score |-> acc.score]

\* if cond: signals.append(sig), for a marker
MarkIf(cond, acc, sig) == IF cond THEN Mark(acc, sig) ELSE acc

CapScore_uncapped(s) == s

\* score = min(score, 100)
CapScore(s) == IF s < 100 THEN s ELSE 100

\* any(s.key in keys for s in signals)
AnyKey(signals, keys) == \E i \in DOMAIN signals : signals[i].key \in keys

\* the reserved display-name prefix "Enterprise-Zapp-Scan-"
TOOL_PREFIX ==
    <<69, 110, 116, 101, 114, 112, 114, 105, 115, 101, 45,
      90, 97, 112, 112, 45, 83, 99, 97, 110, 45>>

\* "http://localhost" and "https://localhost"
HTTP_LOCALHOST == <<104, 116, 116, 112, 58, 47, 47, 108, 111, 99, 97, 108, 104, 111, 115, 116>>
HTTPS_LOCALHOST == <<104, 116, 116, 112, 115, 58, 47, 47, 108, 111, 99, 97, 108, 104, 111, 115, 116>>

\* url.startswith(("http://localhost", "https://localhost")) or "*" in url
IsWildcardRedirect(url) ==
    \/ startswith(url, HTTP_LOCALHOST)
    \/ startswith(url, HTTPS_LOCALHOST)
    \/ \E i \in DOMAIN url : url[i] = 42

LastSignInRaw_most_recent(sign_in) ==
    LET srcs == << Get(Get(sign_in, "lastSignInActivity", EmptyDict), "lastSignInDateTime", TsNone),
                   Get(Get(sign_in, "lastDelegatedSignInActivity", EmptyDict), "lastSignInDateTime", TsNone),
                   Get(Get(sign_in, "lastApplicationSignInActivity", EmptyDict), "lastSignInDateTime", TsNone) >>
        resolving == { i \in 1..3 : _parse_dt(srcs[i]) # None }
    IN  IF resolving = {} THEN PyOr(srcs[1], PyOr(srcs[2], srcs[3]))
        ELSE srcs[CHOOSE i \in resolving :
                    \A j \in resolving : _parse_dt(srcs[i])[1] >= _parse_dt(srcs[j])[1]]

\* the last-sign-in text: the or-chain over the three activity blocks
LastSignInRaw(sign_in) ==
    PyOr(Get(Get(sign_in, "lastSignInActivity", EmptyDict), "lastSignInDateTime", TsNone),
      PyOr(Get(Get(sign_in, "lastDelegatedSignInActivity", EmptyDict), "lastSignInDateTime", TsNone),
           Get(Get(sign_in, "lastApplicationSignInActivity", EmptyDict), "lastSignInDateTime", TsNone)))

\* end_dt of each credential of a credential loop
EndDts(creds) == [i \in DOMAIN creds |-> _parse_dt(Get(creds[i], "endDateTime", TsNone))]

\* how many of the first i credentials of a loop made _days_until read the clock
ClockReadsUpTo(creds, i) == Cardinality({ j \in 1..i : EndDts(creds)[j] # None })

\* days_left of each credential of a loop whose clock reads follow rd[base]
DaysLeft(creds, rd, base) ==
    [i \in DOMAIN creds |->
        IF EndDts(creds)[i] = None THEN None
        ELSE _days_until(EndDts(creds)[i], rd[base + ClockReadsUpTo(creds, i)])]

ExpiryTier_exclusive_bounds(days_left) ==
    IF days_left = None THEN "none"
    ELSE IF days_left[1] <= 0 THEN "expired"
    ELSE IF days_left[1] < NEAR_EXPIRY_DAYS THEN "near_expiry"
    ELSE IF days_left[1] < NEAR_EXPIRY_WARN_DAYS THEN "expiry_warning"
    ELSE "none"

\* the if / elif chain on days_left in the two credential loops
ExpiryTier(days_left) ==
    IF days_left = None THEN "none"
    ELSE IF days_left[1] < 0 THEN "expired"
    ELSE IF days_left[1] <= NEAR_EXPIRY_DAYS THEN "near_expiry"
    ELSE IF days_left[1] <= NEAR_EXPIRY_WARN_DAYS THEN "expiry_warning"
    ELSE "none"

\* the three flags a credential loop leaves behind
CredentialFlags(creds, rd, base) ==
    LET tiers == [i \in DOMAIN creds |-> ExpiryTier(DaysLeft(creds, rd, base)[i])]
    IN  [ expired |-> \E i \in DOMAIN creds : tiers[i] = "expired",
          near_expiry |-> \E i \in DOMAIN creds : tiers[i] = "near_expiry",
          expiry_warning |-> \E i \in DOMAIN creds : tiers[i] = "expiry_warning" ]

\* the long_lived list comprehension: the indices it keeps
LongLived(password_creds) ==
    { i \in DOMAIN password_creds :
        LET end_dt == _parse_dt(Get(password_creds[i], "endDateTime", TsNone))
            start_dt == _parse_dt(Get(password_creds[i], "startDateTime", TsNone))
        IN  /\ end_dt # None
            /\ start_dt # None
            /\ (end_dt[1] - start_dt[1]) \div TicksPerDay > 365 }

\* str.split(): a scope string is a sequence of pieces, " " standing for a run
\* of whitespace; pieces that touch make one token
RECURSIVE SplitFrom(_, _, _, _)
SplitFrom(s, i, cur, out) ==
    IF i > Len(s) THEN (IF cur = "" THEN out ELSE Append(out, cur))
    ELSE IF s[i] = " " THEN SplitFrom(s, i + 1, "", IF cur = "" THEN out ELSE Append(out, cur))
    ELSE SplitFrom(s, i + 1, cur \o s[i], out)

split(s) == SplitFrom(s, 1, "", <<>>)

IsHighPrivilegeScope(token) == token \in HIGH_PRIVILEGE_DELEGATED_SCOPES

RECURSIVE MatchedDelegatedScopes_by_piece(_, _)
MatchedDelegatedScopes_by_piece(delegated_grants, n) ==
    IF n = 0 THEN <<>>
    ELSE MatchedDelegatedScopes_by_piece(delegated_grants, n - 1)
         \o SelectSeq(Get(delegated_grants[n], "scope", <<>>), IsHighPrivilegeScope)

\* matched_delegated_scopes after the loop over the first n grants
RECURSIVE MatchedDelegatedScopes(_, _)
MatchedDelegatedScopes(delegated_grants, n) ==
    IF n = 0 THEN <<>>
    ELSE MatchedDelegatedScopes(delegated_grants, n - 1)
         \o SelectSeq(split(Get(delegated_grants[n], "scope", <<>>)), IsHighPrivilegeScope)

\* the number of _utcnow() calls one analyze_app call makes
NumReads(sp) ==
    1
    + (IF _parse_dt(LastSignInRaw(Get(sp, "_signInActivity", EmptyDict))) # None THEN 1 ELSE 0)
    + ClockReadsUpTo(Get(sp, "passwordCredentials", <<>>), Len(Get(sp, "passwordCredentials", <<>>)))
    + ClockReadsUpTo(Get(sp, "keyCredentials", <<>>), Len(Get(sp, "keyCredentials", <<>>)))

\* analyze_app raises: one of its _parse_dt calls does. It parses
\* createdDateTime, the last sign-in, the end of every secret and certificate,
\* and in the long_lived comprehension the start of every secret whose end
\* parsed to a value
analyze_app_raises(sp) ==
    LET password_creds == Get(sp, "passwordCredentials", <<>>)
        key_creds == Get(sp, "keyCredentials", <<>>)
    IN  \/ _parse_dt_raises(Get(sp, "createdDateTime", TsNone))
        \/ _parse_dt_raises(LastSignInRaw(Get(sp, "_signInActivity", EmptyDict)))
        \/ \E i \in DOMAIN password_creds :
              _parse_dt_raises(Get(password_creds[i], "endDateTime", TsNone))
        \/ \E i \in DOMAIN key_creds :
              _parse_dt_raises(Get(key_creds[i], "endDateTime", TsNone))
        \/ \E i \in DOMAIN password_creds :
              /\ _parse_dt(Get(password_creds[i], "endDateTime", TsNone)) # None
              /\ _parse_dt_raises(Get(password_creds[i], "startDateTime", TsNone))

\* None where the value would be a string
NoneStr == "<None>"

StalenessRule_without_block(acc, is_microsoft_first_party, last_sign_in_dt, sign_in, days_since, stale_days) ==
    IF is_microsoft_first_party THEN acc
    ELSE IF last_sign_in_dt = None
    THEN Fire(acc, Signal("never_signed_in", "high", 35), 35)
    ELSE IF days_since # None /\ days_since[1] > stale_days
    THEN Fire(acc, Signal("stale", "high", 30), 30)
    ELSE acc

StalenessRule_at_threshold(acc, is_microsoft_first_party, last_sign_in_dt, sign_in, days_since, stale_days) ==
    IF is_microsoft_first_party THEN acc
    ELSE IF last_sign_in_dt = None /\ DOMAIN sign_in # {}
    THEN Fire(acc, Signal("never_signed_in", "high", 35), 35)
    ELSE IF days_since # None /\ days_since[1] >= stale_days
    THEN Fire(acc, Signal("stale", "high", 30), 30)
    ELSE acc

\* the never_signed_in / stale rule, skipped for a first-party app
StalenessRule(acc, is_microsoft_first_party, last_sign_in_dt, sign_in, days_since, stale_days) ==
    IF is_microsoft_first_party THEN acc
    ELSE IF last_sign_in_dt = None /\ DOMAIN sign_in # {}
    THEN Fire(acc, Signal("never_signed_in", "high", 35), 35)
    ELSE IF days_since # None /\ days_since[1] > stale_days
    THEN Fire(acc, Signal("stale", "high", 30), 30)
    ELSE acc

OwnerRule_independent_checks(acc, is_microsoft_first_party, owners, disabled_owner_ids) ==
    IF is_microsoft_first_party THEN acc
    ELSE FireIf(Len(disabled_owner_ids) # 0,
                FireIf(Len(owners) = 0, acc, Signal("no_owners", "high", 20), 20),
                Signal("disabled_owner", "high", 15), 15)

\* the no_owners / disabled_owner rule: an if / elif on the owner list, skipped
\* for a first-party app
OwnerRule(acc, is_microsoft_first_party, owners, disabled_owner_ids) ==
    IF is_microsoft_first_party THEN acc
    ELSE IF Len(owners) = 0
    THEN Fire(acc, Signal("no_owners", "high", 20), 20)
    ELSE IF Len(disabled_owner_ids) # 0
    THEN Fire(acc, Signal("disabled_owner", "high", 15), 15)
    ELSE acc

\* the excessive_delegated_permissions rule: critical on a stale app, else high
DelegatedRule(acc, has_excessive_delegated, stale_signal) ==
    IF ~has_excessive_delegated THEN acc
    ELSE IF stale_signal
    THEN Fire(acc, Signal("excessive_delegated_permissions", "critical", 25), 25)
    ELSE Fire(acc, Signal("excessive_delegated_permissions", "high", 20), 20)

MultiTenantRule_role_only(acc, is_multi_tenant, is_microsoft_first_party, has_high_privilege, has_excessive_delegated) ==
    IF ~(is_multi_tenant /\ ~is_microsoft_first_party) THEN acc
    ELSE IF has_high_privilege
    THEN Fire(acc, Signal("multi_tenant_app", "high", 15), 15)
    ELSE Fire(acc, Signal("multi_tenant_app", "medium", 10), 10)

\* the multi_tenant_app rule: high with high-privilege permissions, else medium
MultiTenantRule(acc, is_multi_tenant, is_microsoft_first_party, has_high_privilege, has_excessive_delegated) ==
    IF ~(is_multi_tenant /\ ~is_microsoft_first_party) THEN acc
    ELSE IF has_high_privilege \/ has_excessive_delegated
    THEN Fire(acc, Signal("multi_tenant_app", "high", 15), 15)
    ELSE Fire(acc, Signal("multi_tenant_app", "medium", 10), 10)

HighPrivilegeStaleFires_without_staleness(has_high_privilege, stale_signal) == has_high_privilege

\* the condition of the high_privilege_stale signal
HighPrivilegeStaleFires(has_high_privilege, stale_signal) == has_high_privilege /\ stale_signal

NoAssignmentsFires_disabled_too(assignments, account_enabled, sp_type, is_microsoft_first_party) ==
    /\ Len(assignments) = 0
    /\ sp_type \notin {"ManagedIdentity", "SocialIdp"}
    /\ ~is_microsoft_first_party

NoAssignmentsFires_first_party_too(assignments, account_enabled, sp_type, is_microsoft_first_party) ==
    /\ Len(assignments) = 0
    /\ account_enabled
    /\ sp_type \notin {"ManagedIdentity", "SocialIdp"}

\* the condition of the no_assignments signal
NoAssignmentsFires(assignments, account_enabled, sp_type, is_microsoft_first_party) ==
    /\ Len(assignments) = 0
    /\ account_enabled
    /\ sp_type \notin {"ManagedIdentity", "SocialIdp"}
    /\ ~is_microsoft_first_party

\* the condition of near_expiry_secret / near_expiry_cert on a loop's flags
NearExpiryFires(flags) == flags.near_expiry /\ ~flags.expired

ExpiryWarningFires_unsuppressed(flags) == flags.expiry_warning /\ ~flags.expired

\* the condition of expiry_warning_secret / expiry_warning_cert on a loop's flags
ExpiryWarningFires(flags) == flags.expiry_warning /\ ~flags.expired /\ ~flags.near_expiry

\* "Unknown"
UNKNOWN_NAME == <<85, 110, 107, 110, 111, 119, 110>>

\* analyze_app(sp, stale_days); rd are the values its _utcnow() calls return,
\* in call order: rd[1] is `now`, then one reading per _days_since / _days_until
\* call that gets a timestamp
analyze_app(sp, stale_days, rd) ==
    LET sp_id == Get(sp, "id", "")
        app_id == Get(sp, "appId", "")
        display_name == Get(sp, "displayName", UNKNOWN_NAME)
        account_enabled == Get(sp, "accountEnabled", TRUE)
        sp_type == Get(sp, "servicePrincipalType", "")
        is_microsoft_first_party ==
            Get(sp, "appOwnerOrganizationId", NoneStr) \in MICROSOFT_TENANT_IDS
        is_tool_artifact == startswith(display_name, TOOL_PREFIX)
        owners == Get(sp, "_owners", <<>>)
        assignments == Get(sp, "_appPermissions", <<>>)
        delegated_grants == Get(sp, "_delegatedGrants", <<>>)
        app_permissions == Get(sp, "_assignments", <<>>)
        disabled_owner_ids == Get(sp, "_disabledOwnerIds", <<>>)
        sign_in == Get(sp, "_signInActivity", EmptyDict)
        password_creds == Get(sp, "passwordCredentials", <<>>)
        key_creds == Get(sp, "keyCredentials", <<>>)
        \* last sign-in / staleness
        last_sign_in_raw == LastSignInRaw(sign_in)
        last_sign_in_dt == _parse_dt(last_sign_in_raw)
        sign_in_reads == IF last_sign_in_dt # None THEN 1 ELSE 0
        days_since == IF last_sign_in_dt = None THEN None
                      ELSE _days_since(last_sign_in_dt, rd[2])
        a0 == [signals |-> <<>>, score |-> 0]
        a1 == StalenessRule(a0, is_microsoft_first_party, last_sign_in_dt, sign_in,
                            days_since, stale_days)
        \* owners
        a2 == OwnerRule(a1, is_microsoft_first_party, owners, disabled_owner_ids)
        \* assignments
        a3 == FireIf(NoAssignmentsFires(assignments, account_enabled, sp_type, is_microsoft_first_party),
                     a2, Signal("no_assignments", "medium", 10), 10)
        \* disabled service principal
        a4 == FireIf(~account_enabled,
                     a3, Signal("disabled_sp", "medium", 10), 10)
        \* credentials
        secret == CredentialFlags(password_creds, rd, 1 + sign_in_reads)
        cert == CredentialFlags(key_creds, rd,
                    1 + sign_in_reads + ClockReadsUpTo(password_creds, Len(password_creds)))
        a5 == FireIf(secret.expired,
                     a4, Signal("expired_secret", "critical", 25), 25)
        a6 == FireIf(cert.expired,
                     a5, Signal("expired_cert", "critical", 25), 25)
        a7 == FireIf(NearExpiryFires(secret),
                     a6, Signal("near_expiry_secret", "high", 15), 15)
        a8 == FireIf(NearExpiryFires(cert),
                     a7, Signal("near_expiry_cert", "high", 15), 15)
        a9 == FireIf(ExpiryWarningFires(secret),
                     a8, Signal("expiry_warning_secret", "medium", 8), 8)
        a10 == FireIf(ExpiryWarningFires(cert),
                     a9, Signal("expiry_warning_cert", "medium", 8), 8)
        \* long-lived secrets
        long_lived == LongLived(password_creds)
        a11 == FireIf(long_lived # {},
                     a10, Signal("long_lived_secret", "low", 15), 15)
        \* mixed credential types
        has_mixed_credentials == Len(password_creds) > 0 /\ Len(key_creds) > 0
        a12 == FireIf(has_mixed_credentials,
                     a11, Signal("mixed_credential_types", "low", 5), 5)
        \* redirect URIs
        reply_urls == Get(sp, "replyUrls", <<>>)
        has_any_cred == Len(password_creds) > 0 \/ Len(key_creds) > 0
        has_no_reply_urls == Len(reply_urls) = 0 /\ has_any_cred
        a13 == FireIf(has_no_reply_urls,
                     a12, Signal("no_reply_urls", "medium", 10), 10)
        has_wildcard_redirect == \E i \in DOMAIN reply_urls : IsWildcardRedirect(reply_urls[i])
        a14 == FireIf(has_wildcard_redirect,
                     a13, Signal("wildcard_redirect_uri", "high", 20), 20)
        \* high privilege + stale
        has_high_privilege ==
            \E i \in DOMAIN app_permissions :
                Get(app_permissions[i], "appRoleId", NoneStr) \in HIGH_PRIVILEGE_ROLE_IDS
        stale_signal == AnyKey(a14.signals, {"stale", "never_signed_in"})
        a15 == FireIf(HighPrivilegeStaleFires(has_high_privilege, stale_signal),
                     a14, Signal("high_privilege_stale", "critical", 25), 25)
        \* excessive delegated permissions
        matched_delegated_scopes == MatchedDelegatedScopes(delegated_grants, Len(delegated_grants))
        has_excessive_delegated == Len(matched_delegated_scopes) > 0
        a16 == DelegatedRule(a15, has_excessive_delegated, stale_signal)
        \* implicit grant flow
        has_implicit_grant ==
            \/ Get(sp, "oauth2AllowIdTokenIssuance", FALSE)
            \/ Get(sp, "oauth2AllowImplicitFlow", FALSE)
        a17 == FireIf(has_implicit_grant,
                     a16, Signal("implicit_grant_enabled", "medium", 10), 10)
        \* multi-tenant app
        sign_in_audience == Get(sp, "signInAudience", "")
        is_multi_tenant ==
            sign_in_audience \in {"AzureADMultipleOrgs", "AzureADandPersonalMicrosoftAccount"}
        a18 == MultiTenantRule(a17, is_multi_tenant, is_microsoft_first_party,
                               has_high_privilege, has_excessive_delegated)
        \* Microsoft first-party marker, tool-artifact marker
        a19 == MarkIf(is_microsoft_first_party, a18, Signal("microsoft_first_party", "info", 0))
        a20 == MarkIf(is_tool_artifact, a19, Signal("tool_artifact", "info", 0))
        capped == CapScore(a20.score)
    IN  [ sp_id |-> sp_id,
          app_id |-> app_id,
          display_name |-> display_name,
          account_enabled |-> account_enabled,
          sp_type |-> sp_type,
          created_datetime |-> Get(sp, "createdDateTime", TsNone),
          last_sign_in |-> last_sign_in_raw,
          days_since_sign_in |-> days_since,
          owner_count |-> Len(owners),
          assignment_count |-> Len(assignments),
          has_expired_secret |-> secret.expired,
          has_expired_cert |-> cert.expired,
          has_near_expiry_secret |-> secret.near_expiry,
          has_near_expiry_cert |-> cert.near_expiry,
          has_high_privilege |-> has_high_privilege,
          signals |-> a20.signals,
          risk_score |-> capped,
          risk_band |-> _risk_band(capped),
          primary_recommendation |-> _primary_recommendation(a20.signals, account_enabled),
          is_microsoft_first_party |-> is_microsoft_first_party,
          is_tool_artifact |-> is_tool_artifact,
          disabled_owner_count |-> Len(disabled_owner_ids),
          has_expiry_warning_secret |-> secret.expiry_warning,
          has_expiry_warning_cert |-> cert.expiry_warning,
          has_no_reply_urls |-> has_no_reply_urls,
          has_wildcard_redirect |-> has_wildcard_redirect,
          has_excessive_delegated |-> has_excessive_delegated,
          has_implicit_grant |-> has_implicit_grant,
          is_multi_tenant |-> is_multi_tenant,
          has_mixed_credentials |-> has_mixed_credentials,
          owners |-> owners,
          password_credentials |-> password_creds,
          key_credentials |-> key_creds,
          delegated_grants |-> delegated_grants,
          app_permissions |-> app_permissions ]

\* ── Inputs ───────────────────────────────────────────────────────────────

\* the clock when a call starts, and n days in ticks
Clock0 == 800 * TicksPerDay
Days(n) == n * TicksPerDay

\* what n successive _utcnow() calls can return from clock value c on: the
\* clock never runs backwards and advances at most MaxDrift ticks during a call
ClockReads(c, n) ==
    { [i \in 1..n |-> c + Cardinality({ k \in 1..MaxDrift : tick[k] <= i })] :
        tick \in [1..MaxDrift -> 1..(n + 1)] }

NAME_MID == <<77, 105, 100>>                    \* "Mid"
NAME_APPLE == <<97, 112, 112, 108, 101>>        \* "apple"
NAME_APPLE_UPPER == <<65, 80, 80, 76, 69>>      \* "APPLE"
NAME_ZEBRA == <<90, 101, 98, 114, 97>>          \* "Zebra"
NAME_TOOL == TOOL_PREFIX \o <<49>>              \* "Enterprise-Zapp-Scan-1"

URL_PLAIN == <<104, 116, 116, 112, 115, 58, 47, 47, 97>>          \* "https://a"
URL_WILD == <<104, 116, 116, 112, 115, 58, 47, 47, 42, 46, 97>>   \* "https://*.a"
URL_LOCAL == HTTP_LOCALHOST \o <<58, 51>>                         \* "http://localhost:3"

MS_TENANT == "f8cdef31-a31e-4b4a-93e4-5f571e91255a"
OTHER_TENANT == "11111111-2222-3333-4444-555555555555"
HIGH_ROLE == "19dbc75e-c2e2-444c-a770-ec69d8559fc7"
LOW_ROLE == "00000000-aaaa-bbbb-cccc-000000000000"

\* BASE_SP of tests/test_analyzer.py: a complete record that fires no signal
BASE_SP ==
    [ id |-> "test-sp-id",
      appId |-> "test-app-id",
      displayName |-> NAME_MID,
      accountEnabled |-> TRUE,
      servicePrincipalType |-> "Application",
      createdDateTime |-> TsZ(Clock0 - Days(300)),
      appOwnerOrganizationId |-> OTHER_TENANT,
      signInAudience |-> "AzureADMyOrg",
      passwordCredentials |-> <<>>,
      keyCredentials |-> <<>>,
      replyUrls |-> <<>>,
      oauth2AllowIdTokenIssuance |-> FALSE,
      oauth2AllowImplicitFlow |-> FALSE,
      _assignments |-> << [id |-> "role-1", appRoleId |-> LOW_ROLE] >>,
      _owners |-> << [id |-> "owner-1"] >>,
      _delegatedGrants |-> <<>>,
      _appPermissions |-> << [id |-> "assign-test"] >>,
      _signInActivity |-> EmptyDict,
      _disabledOwnerIds |-> <<>> ]

\* {**d, **e}: the keys of e override those of d
Override(d, e) == e @@ d

\* credentials: end instants around the tier boundaries, in the text forms
\* the Graph API returns (trailing Z or an explicit offset), with and without
\* a start, plus an unparseable end and an absent end
CRED_PAST == [endDateTime |-> TsZ(Clock0 - 1), startDateTime |-> TsZ(Clock0 - 1 - Days(366))]
CRED_NOW == [endDateTime |-> TsZ(Clock0)]
CRED_30 == [endDateTime |-> TsOff(Clock0 + Days(30) + 1, 1), startDateTime |-> TsZ(Clock0 + Days(30) - Days(365))]
CRED_31 == [endDateTime |-> TsZ(Clock0 + Days(31)), startDateTime |-> TsBad]
CRED_90 == [endDateTime |-> TsZ(Clock0 + Days(90) + 1)]
CRED_91 == [endDateTime |-> TsZ(Clock0 + Days(91)), startDateTime |-> TsZ(Clock0 - Days(300))]
CRED_BAD == [endDateTime |-> TsBad, startDateTime |-> TsZ(Clock0 - Days(900))]
CRED_NO_END == [startDateTime |-> TsZ(Clock0 - Days(900))]

CredOptions == {CRED_PAST, CRED_NOW, CRED_30, CRED_31, CRED_90, CRED_91, CRED_BAD, CRED_NO_END}
KeyCredOptions == {CRED_PAST, CRED_NOW, CRED_31}

\* the sequences over S of length at most n
SeqsUpTo(S, n) == UNION { [1..k -> S] : k \in 0..n }

\* sign-in activity blocks
SIGNIN_EMPTY == EmptyDict
SIGNIN_NO_ACTIVITY == [appId |-> "test-app-id"]
SIGNIN_FRESH == [lastSignInActivity |-> [lastSignInDateTime |-> TsZ(Clock0 - Days(1))]]
SIGNIN_90 == [lastSignInActivity |-> [lastSignInDateTime |-> TsZ(Clock0 - Days(90))]]
SIGNIN_91_EDGE ==
    [ lastSignInActivity |-> [lastSignInDateTime |-> TsEmpty],
      lastDelegatedSignInActivity |-> [lastSignInDateTime |-> TsZ(Clock0 - Days(91) + 1)] ]
SIGNIN_OLD_THEN_FRESH ==
    [ lastSignInActivity |-> [lastSignInDateTime |-> TsZ(Clock0 - Days(200))],
      lastApplicationSignInActivity |-> [lastSignInDateTime |-> TsZ(Clock0 - Days(1))] ]
SIGNIN_BAD_THEN_FRESH ==
    [ lastSignInActivity |-> [lastSignInDateTime |-> TsBad],
      lastDelegatedSignInActivity |-> [lastSignInDateTime |-> TsZ(Clock0 - Days(1))] ]

SignInOptions ==
    { SIGNIN_EMPTY, SIGNIN_NO_ACTIVITY, SIGNIN_FRESH, SIGNIN_90, SIGNIN_91_EDGE,
      SIGNIN_OLD_THEN_FRESH, SIGNIN_BAD_THEN_FRESH }

\* delegated grants; a scope string is written as its pieces
GRANT_LOW == [scope |-> <<"User.Read">>]
GRANT_HIGH == [scope |-> <<"User.Read", " ", "Mail.ReadWrite">>]
GRANT_JOINED == [scope |-> <<"Mail.ReadWrite", "X">>]
GRANT_TWO_HIGH == [scope |-> <<" ", "Mail.ReadWrite", "Shared", " ", "Group.ReadWrite.All">>]

GrantOptions ==
    { <<>>, <<GRANT_LOW>>, <<GRANT_JOINED>>, <<GRANT_HIGH>>, <<GRANT_LOW, GRANT_TWO_HIGH>>,
      <<GRANT_HIGH, GRANT_TWO_HIGH>> }

\* owners with the disabled-owner-id list resolved for them; a snapshot read
\* back from a cache file can carry ids of accounts that own the app no longer
OwnerOptions ==
    { [_owners |-> <<>>, _disabledOwnerIds |-> <<>>],
      [_owners |-> << [id |-> "owner-1"] >>, _disabledOwnerIds |-> <<>>],
      [_owners |-> << [id |-> "owner-1"] >>, _disabledOwnerIds |-> <<"owner-1">>],
      [_owners |-> << [id |-> "owner-1"], [id |-> "owner-2"] >>, _disabledOwnerIds |-> <<"owner-2">>],
      [_owners |-> << [id |-> "owner-1"] >>, _disabledOwnerIds |-> <<"former-owner">>],
      [_owners |-> <<>>, _disabledOwnerIds |-> <<"former-owner">>] }

\* the other stale threshold the inputs use
ALT_STALE_DAYS == DEFAULT_STALE_DAYS - 1

\* sign-in, privilege and audience vary
SignInCases ==
    { [ sp |-> Override(BASE_SP,
                 [ appOwnerOrganizationId |-> org, _signInActivity |-> si,
                   _assignments |-> roles, _delegatedGrants |-> grants,
                   signInAudience |-> aud ]),
        stale_days |-> sd ] :
      org \in {MS_TENANT, OTHER_TENANT},
      si \in SignInOptions,
      roles \in { <<>>, << [appRoleId |-> LOW_ROLE] >>, << [appRoleId |-> LOW_ROLE], [appRoleId |-> HIGH_ROLE] >> },
      grants \in GrantOptions,
      aud \in {"AzureADMyOrg", "AzureADMultipleOrgs", "AzureADandPersonalMicrosoftAccount"},
      sd \in {DEFAULT_STALE_DAYS, ALT_STALE_DAYS} }

\* ownership, enablement, principal type and assignments vary
OwnershipCases ==
    { [ sp |-> Override(BASE_SP,
                 Override(own,
                   [ appOwnerOrganizationId |-> org, accountEnabled |-> en,
                     servicePrincipalType |-> ty, _appPermissions |-> asg,
                     displayName |-> nm ])),
        stale_days |-> DEFAULT_STALE_DAYS ] :
      org \in {MS_TENANT, OTHER_TENANT},
      own \in OwnerOptions,
      en \in BOOLEAN,
      ty \in {"Application", "ManagedIdentity", "SocialIdp"},
      asg \in { <<>>, << [id |-> "assign-test"] >> },
      nm \in {NAME_MID, NAME_TOOL} }

\* the password credential list varies
SecretCases ==
    { [ sp |-> Override(BASE_SP, [passwordCredentials |-> pw, replyUrls |-> <<URL_PLAIN>>]),
        stale_days |-> DEFAULT_STALE_DAYS ] :
      pw \in SeqsUpTo(CredOptions, MaxCreds) }

\* password credentials, key credentials and redirect URIs vary together
CredentialCases ==
    { [ sp |-> Override(BASE_SP,
                 [ passwordCredentials |-> pw, keyCredentials |-> ky, replyUrls |-> ru ]),
        stale_days |-> DEFAULT_STALE_DAYS ] :
      pw \in SeqsUpTo(CredOptions, 1),
      ky \in SeqsUpTo(KeyCredOptions, 2),
      ru \in { <<>>, <<URL_PLAIN>> } }

\* every rule family switched on or off, together
CombinedCases ==
    { [ sp |-> Override(BASE_SP,
                 Override(own,
                   [ appOwnerOrganizationId |-> org, _signInActivity |-> si,
                     accountEnabled |-> en, passwordCredentials |-> pw,
                     keyCredentials |-> ky, _assignments |-> roles,
                     _delegatedGrants |-> grants,
                     signInAudience |-> "AzureADMultipleOrgs",
                     replyUrls |-> ru, oauth2AllowImplicitFlow |-> im ])),
        stale_days |-> DEFAULT_STALE_DAYS ] :
      org \in {MS_TENANT, OTHER_TENANT},
      own \in { [_owners |-> <<>>, _disabledOwnerIds |-> <<>>],
                [_owners |-> << [id |-> "owner-1"] >>, _disabledOwnerIds |-> <<>>] },
      si \in {SIGNIN_NO_ACTIVITY, SIGNIN_FRESH},
      en \in BOOLEAN,
      pw \in { <<>>, <<CRED_PAST>> },
      ky \in { <<>>, <<CRED_PAST>> },
      roles \in { <<>>, << [appRoleId |-> HIGH_ROLE] >> },
      grants \in { <<>>, <<GRANT_HIGH>> },
      ru \in { <<URL_PLAIN, URL_WILD>>, <<URL_LOCAL>> },
      im \in BOOLEAN }

\* partially populated records
PartialCases ==
    { [sp |-> EmptyDict, stale_days |-> DEFAULT_STALE_DAYS],
      [sp |-> [displayName |-> NAME_TOOL, appOwnerOrganizationId |-> MS_TENANT],
       stale_days |-> DEFAULT_STALE_DAYS],
      [sp |-> [accountEnabled |-> FALSE, passwordCredentials |-> <<CRED_30>>],
       stale_days |-> DEFAULT_STALE_DAYS] }
    \cup
    \* a fully populated record from which one field at a time is absent
    { [ sp |-> [ j \in DOMAIN BASE_SP \ {k} |->
                   Override(BASE_SP,
                     [ accountEnabled |-> FALSE,
                       displayName |-> NAME_TOOL,
                       appOwnerOrganizationId |-> MS_TENANT,
                       signInAudience |-> "AzureADMultipleOrgs",
                       passwordCredentials |-> <<CRED_30>>,
                       keyCredentials |-> <<CRED_PAST>>,
                       replyUrls |-> <<URL_WILD>>,
                       oauth2AllowImplicitFlow |-> TRUE,
                       _assignments |-> << [id |-> "role-1", appRoleId |-> HIGH_ROLE] >>,
                       _owners |-> << [id |-> "owner-1"] >>,
                       _disabledOwnerIds |-> <<"owner-1">>,
                       _delegatedGrants |-> <<GRANT_HIGH>>,
                       _signInActivity |-> SIGNIN_91_EDGE ])[j] ],
        stale_days |-> DEFAULT_STALE_DAYS ] :
      k \in DOMAIN BASE_SP }

\* records with a timestamp that cannot be moved to UTC: as the end of a
\* secret or of a certificate, as the start of a secret (next to a good end
\* and next to an unparseable one), as the last sign-in and as the creation
\* time
OverflowCases ==
    { [ sp |-> Override(BASE_SP, o), stale_days |-> DEFAULT_STALE_DAYS ] :
      o \in { [passwordCredentials |-> << [endDateTime |-> TsOutOfRange] >>],
              [keyCredentials |-> << CRED_30, [endDateTime |-> TsOutOfRange] >>],
              [passwordCredentials |-> << [endDateTime |-> TsZ(Clock0 + Days(200)), startDateTime |-> TsOutOfRange] >>],
              [passwordCredentials |-> << [endDateTime |-> TsBad, startDateTime |-> TsOutOfRange] >>],
              [_signInActivity |-> [lastSignInActivity |-> [lastSignInDateTime |-> TsOutOfRange]]],
              [createdDateTime |-> TsOutOfRange] } }

\* the owning tenant varies over every known Microsoft tenant id and a foreign
\* one, against owners, sign-in, assignments and audience
FirstPartyCases ==
    { [ sp |-> Override(BASE_SP,
                 Override(own,
                   [ appOwnerOrganizationId |-> org, _signInActivity |-> si,
                     _appPermissions |-> asg, signInAudience |-> aud ])),
        stale_days |-> DEFAULT_STALE_DAYS ] :
      org \in MICROSOFT_TENANT_IDS \cup {OTHER_TENANT},
      own \in OwnerOptions,
      si \in {SIGNIN_NO_ACTIVITY, SIGNIN_91_EDGE},
      asg \in { <<>>, << [id |-> "assign-test"] >> },
      aud \in {"AzureADMyOrg", "AzureADMultipleOrgs"} }

AppCases ==
    SignInCases \cup OwnershipCases \cup SecretCases \cup CredentialCases
    \cup CombinedCases \cup FirstPartyCases \cup PartialCases \cup OverflowCases

\* ── analyze_app called once on one record ────────────────────────────────

InitApp ==
    /\ pc = "start"
    /\ clock = Clock0
    /\ \E c \in AppCases : arg_sp = c.sp /\ arg_stale_days = c.stale_days
    /\ utc_reads = <<>>
    /\ ret_app = None
    /\ arg_score = 0
    /\ ret_band = ""
    /\ arg_raw_data = EmptyDict
    /\ ret_all = <<>>
    /\ ret_counts = EmptyDict
    /\ CaIdle
    /\ GetIdle

\* the record `sp` when analyze_app returns: the function only calls sp.get,
\* cred.get and sign_in.get, and binds the lists it reads to locals and to
\* fields of the fresh AppResult; it assigns to no key and calls no list method
sp_on_return(sp) == sp

AnalyzeApp ==
    /\ pc = "start"
    /\ ~analyze_app_raises(arg_sp)
    /\ \E rd \in ClockReads(clock, NumReads(arg_sp)) :
        /\ utc_reads' = rd
        /\ ret_app' = analyze_app(arg_sp, arg_stale_days, rd)
        /\ clock' = rd[Len(rd)]
    /\ pc' = "analyze_app"
    /\ arg_sp' = sp_on_return(arg_sp)
    /\ UNCHANGED <<arg_stale_days, arg_score, ret_band, arg_raw_data, ret_all, ret_counts>>
    /\ UNCHANGED ca_vars
    /\ UNCHANGED get_vars

\* analyze_app leaves with the OverflowError of a _parse_dt call: nothing is
\* returned; `now` was read before
AnalyzeAppRaises ==
    /\ pc = "start"
    /\ analyze_app_raises(arg_sp)
    /\ utc_reads' = <<clock>>
    /\ pc' = "analyze_app_raised"
    /\ arg_sp' = sp_on_return(arg_sp)
    /\ UNCHANGED <<clock, ret_app, arg_stale_days, arg_score, ret_band, arg_raw_data, ret_all, ret_counts>>
    /\ UNCHANGED ca_vars
    /\ UNCHANGED get_vars

\* ── _risk_band called on an integer ──────────────────────────────────────

InitBand ==
    /\ pc = "start_band"
    /\ clock = Clock0
    /\ arg_score \in (0 - MaxScoreArg)..MaxScoreArg
    /\ ret_band = ""
    /\ arg_sp = EmptyDict
    /\ arg_stale_days = DEFAULT_STALE_DAYS
    /\ utc_reads = <<>>
    /\ ret_app = None
    /\ arg_raw_data = EmptyDict
    /\ ret_all = <<>>
    /\ ret_counts = EmptyDict
    /\ CaIdle
    /\ GetIdle

RiskBand ==
    /\ pc = "start_band"
    /\ ret_band' = _risk_band(arg_score)
    /\ pc' = "risk_band"
    /\ UNCHANGED <<clock, arg_sp, arg_stale_days, utc_reads, ret_app, arg_score,
                   arg_raw_data, ret_all, ret_counts>>
    /\ UNCHANGED ca_vars
    /\ UNCHANGED get_vars

Init == InitApp \/ InitBand

Next == AnalyzeApp \/ AnalyzeAppRaises \/ RiskBand

Spec == Init /\ [][Next]_vars

\* ── analyze_app called a second time on the same record ──────────────────

\* the caller calls analyze_app again with the arguments of the first call
AnalyzeAppAgain ==
    /\ pc = "analyze_app"
    /\ \E rd \in ClockReads(clock, NumReads(arg_sp)) :
        /\ utc_reads' = rd
        /\ ret_app' = analyze_app(arg_sp, arg_stale_days, rd)
        /\ clock' = rd[Len(rd)]
    /\ pc' = "analyze_app_again"
    /\ arg_sp' = sp_on_return(arg_sp)
    /\ UNCHANGED <<arg_stale_days, arg_score, ret_band, arg_raw_data, ret_all, ret_counts>>
    /\ UNCHANGED ca_vars
    /\ UNCHANGED get_vars

NextAgain == AnalyzeApp \/ AnalyzeAppRaises \/ AnalyzeAppAgain

SpecAgain == InitApp /\ [][NextAgain]_vars

\* ── analyze_all and band_counts ──────────────────────────────────────────

\* [analyze_app(sp, stale_days) for sp in apps]: the results for the first n
\* apps; the calls read the clock one after the other, so app k gets the
\* readings of rd that follow those of apps 1..k-1
RECURSIVE ReadsBefore(_, _)
ReadsBefore(apps, k) ==
    IF k <= 1 THEN 0 ELSE ReadsBefore(apps, k - 1) + NumReads(apps[k - 1])

RECURSIVE AppResultsUpTo(_, _, _, _)
AppResultsUpTo(apps, stale_days, rd, n) ==
    IF n = 0 THEN <<>>
    ELSE Append(AppResultsUpTo(apps, stale_days, rd, n - 1),
                analyze_app(apps[n], stale_days,
                            SubSeq(rd, ReadsBefore(apps, n) + 1,
                                   ReadsBefore(apps, n) + NumReads(apps[n]))))

AppResults(apps, stale_days, rd) == AppResultsUpTo(apps, stale_days, rd, Len(apps))

SortKeyLess_case_sensitive(a, b) ==
    \/ 0 - a.risk_score < 0 - b.risk_score
    \/ /\ a.risk_score = b.risk_score
       /\ StrLess(a.display_name, b.display_name)

\* key(a) < key(b) for key = lambda r: (-r.risk_score, r.display_name.lower())
SortKeyLess(a, b) ==
    \/ 0 - a.risk_score < 0 - b.risk_score
    \/ /\ a.risk_score = b.risk_score
       /\ StrLess(lower(a.display_name), lower(b.display_name))

\* sorted(seq, key=...): Python's sort is stable, so an element goes in front
\* of the first element whose key is greater than its own
InsertSorted(out, x) ==
    LET later == { i \in DOMAIN out : SortKeyLess(x, out[i]) }
        at == IF later = {} THEN Len(out) + 1 ELSE MinOf(later)
    IN  SubSeq(out, 1, at - 1) \o <<x>> \o SubSeq(out, at, Len(out))

RECURSIVE SortedPrefix(_, _)
SortedPrefix(seq, n) ==
    IF n = 0 THEN <<>> ELSE InsertSorted(SortedPrefix(seq, n - 1), seq[n])

sorted(seq) == SortedPrefix(seq, Len(seq))

analyze_all(raw_data, stale_days, rd) ==
    sorted(AppResults(Get(raw_data, "apps", <<>>), stale_days, rd))

raw_data_on_return_setdefault(raw_data) ==
    IF "apps" \in DOMAIN raw_data THEN raw_data
    ELSE [k \in DOMAIN raw_data \cup {"apps"} |-> IF k = "apps" THEN <<>> ELSE raw_data[k]]

\* the snapshot when analyze_all returns: raw_data.get leaves the mapping as it
\* is, each app went through analyze_app, and sorted() builds a new list
raw_data_on_return(raw_data) ==
    IF "apps" \in DOMAIN raw_data
    THEN [raw_data EXCEPT !["apps"] = [i \in DOMAIN raw_data["apps"] |-> sp_on_return(raw_data["apps"][i])]]
    ELSE raw_data

band_counts_only_seen(rs) ==
    [b \in { rs[i].risk_band : i \in DOMAIN rs } |->
        Cardinality({ i \in DOMAIN rs : rs[i].risk_band = b })]

\* counts after the loop of band_counts has taken the first n results
RECURSIVE CountBands(_, _)
CountBands(rs, n) ==
    IF n = 0 THEN [critical |-> 0, high |-> 0, medium |-> 0, low |-> 0, clean |-> 0]
    ELSE LET counts == CountBands(rs, n - 1)
             b == rs[n].risk_band
         IN  (b :> (Get(counts, b, 0) + 1)) @@ counts

band_counts(rs) == CountBands(rs, Len(rs))

\* the apps of the snapshots
APP_CLEAN == BASE_SP
APP_ZEBRA == Override(BASE_SP, [displayName |-> NAME_ZEBRA, _appPermissions |-> <<>>])
APP_APPLE == Override(BASE_SP, [displayName |-> NAME_APPLE, _appPermissions |-> <<>>])
APP_APPLE_UPPER == Override(BASE_SP, [displayName |-> NAME_APPLE_UPPER, _appPermissions |-> <<>>])
APP_MID ==
    Override(BASE_SP, [ _signInActivity |-> SIGNIN_91_EDGE,
                        passwordCredentials |-> <<CRED_NOW>>,
                        replyUrls |-> <<URL_LOCAL>> ])
SnapshotApps == {APP_CLEAN, APP_ZEBRA, APP_APPLE, APP_APPLE_UPPER, APP_MID}

\* snapshots: with an app list of up to MaxApps apps, or with no app list
Snapshots ==
    { [tenant |-> "contoso", apps |-> apps] : apps \in SeqsUpTo(SnapshotApps, MaxApps) }
    \cup { [tenant |-> "contoso"] }

\* the number of _utcnow() calls one analyze_all call makes
NumReadsAll(raw_data) ==
    ReadsBefore(Get(raw_data, "apps", <<>>), Len(Get(raw_data, "apps", <<>>)) + 1)

InitAll ==
    /\ pc = "start_all"
    /\ clock = Clock0
    /\ arg_raw_data \in Snapshots
    /\ arg_stale_days = DEFAULT_STALE_DAYS
    /\ utc_reads = <<>>
    /\ ret_all = <<>>
    /\ ret_counts = EmptyDict
    /\ CaIdle
    /\ GetIdle
    /\ arg_sp = EmptyDict
    /\ ret_app = None
    /\ arg_score = 0
    /\ ret_band = ""

AnalyzeAll ==
    /\ pc = "start_all"
    /\ \E rd \in ClockReads(clock, NumReadsAll(arg_raw_data)) :
        /\ utc_reads' = rd
        /\ ret_all' = analyze_all(arg_raw_data, arg_stale_days, rd)
        /\ clock' = IF rd = <<>> THEN clock ELSE rd[Len(rd)]
    /\ pc' = "analyze_all"
    /\ arg_raw_data' = raw_data_on_return(arg_raw_data)
    /\ UNCHANGED <<arg_sp, arg_stale_days, ret_app, arg_score, ret_band, ret_counts>>
    /\ UNCHANGED ca_vars
    /\ UNCHANGED get_vars

BandCounts ==
    /\ pc = "analyze_all"
    /\ ret_counts' = band_counts(ret_all)
    /\ pc' = "band_counts"
    /\ UNCHANGED <<clock, arg_sp, arg_stale_days, utc_reads, ret_app, arg_score, ret_band,
                   arg_raw_data, ret_all>>
    /\ UNCHANGED ca_vars
    /\ UNCHANGED get_vars

NextAll == AnalyzeAll \/ BandCounts

SpecAll == InitAll /\ [][NextAll]_vars

\* ── ca_analyzer.py: analyze_ca_coverage ──────────────────────────────────

\* PolicySummary.is_enforced
is_enforced_report_only_too(policy) ==
    policy.state \in {"enabled", "enabledForReportingButNotEnforced"}

is_enforced(policy) == policy.state = "enabled"

\* "all" and "none", the keywords of includeApplications
STR_ALL == <<97, 108, 108>>
STR_NONE == <<110, 111, 110, 101>>
\* "(unnamed)"
UNNAMED == "(unnamed)"

\* a in seq, for a list
InList(a, seq) == \E i \in DOMAIN seq : seq[i] = a

\* [a.lower() for a in seq]
LowerAll(seq) == [i \in DOMAIN seq |-> lower(seq[i])]

NotKeyword_case_sensitive(a) == a \notin {STR_ALL, STR_NONE}

\* a.lower() not in ("all", "none")
NotKeyword(a) == lower(a) \notin {STR_ALL, STR_NONE}

\* the PolicySummary _parse_policies builds from one raw policy
ParsePolicy(p) ==
    LET conditions == Get(p, "conditions", EmptyDict)
        apps_cond == Get(conditions, "applications", EmptyDict)
        include_apps == Get(apps_cond, "includeApplications", <<>>)
        exclude_apps == Get(apps_cond, "excludeApplications", <<>>)
        includes_all == \E i \in DOMAIN include_apps : lower(include_apps[i]) = STR_ALL
    IN  [ policy_id |-> Get(p, "id", ""),
          display_name |-> Get(p, "displayName", UNNAMED),
          state |-> Get(p, "state", "disabled"),
          includes_all_apps |-> includes_all,
          included_app_ids |-> LowerAll(SelectSeq(include_apps, NotKeyword)),
          excluded_app_ids |-> LowerAll(exclude_apps),
          created_datetime |-> Get(p, "createdDateTime", TsNone),
          modified_datetime |-> Get(p, "modifiedDateTime", TsNone) ]

\* _parse_policies: summaries after the loop has taken the first n policies
RECURSIVE ParsedUpTo(_, _)
ParsedUpTo(ca_policies, n) ==
    IF n = 0 THEN <<>> ELSE Append(ParsedUpTo(ca_policies, n - 1), ParsePolicy(ca_policies[n]))

_parse_policies(ca_policies) == ParsedUpTo(ca_policies, Len(ca_policies))

PolicyCovers_all_skips_exclusion(policy, app_id) ==
    IF policy.includes_all_apps THEN TRUE
    ELSE /\ InList(app_id, policy.included_app_ids)
         /\ ~InList(app_id, policy.excluded_app_ids)

\* the body of the loop over enforced: TRUE when it reaches covering.append
PolicyCovers(policy, app_id) ==
    LET included == IF policy.includes_all_apps THEN TRUE
                    ELSE InList(app_id, policy.included_app_ids)
    IN  IF ~included THEN FALSE
        ELSE IF InList(app_id, policy.excluded_app_ids) THEN FALSE
        ELSE TRUE

Covering_stops_at_first(enforced, app_id, n) ==
    LET hits == { i \in 1..n : PolicyCovers(enforced[i], app_id) }
    IN  IF hits = {} THEN <<>> ELSE << enforced[MinOf(hits)].display_name >>

\* covering after the loop over enforced has taken its first n policies
RECURSIVE Covering(_, _, _)
Covering(enforced, app_id, n) ==
    IF n = 0 THEN <<>>
    ELSE IF PolicyCovers(enforced[n], app_id)
         THEN Append(Covering(enforced, app_id, n - 1), enforced[n].display_name)
         ELSE Covering(enforced, app_id, n - 1)

AppIdOf_case_kept(app) == Get(app, "appId", <<>>)

\* app.get("appId", "").lower()
AppIdOf(app) == lower(Get(app, "appId", <<>>))

\* the AppCoverage appended for one app
AppCoverage(app, enforced) ==
    LET app_id == AppIdOf(app)
        covering == Covering(enforced, app_id, Len(enforced))
    IN  [ app_id |-> app_id,
          display_name |-> Get(app, "displayName", UNNAMED),
          is_covered |-> covering # <<>>,
          policy_names |-> covering ]

\* app_coverages after the loop over apps has taken the first n apps
RECURSIVE CoveragesUpTo(_, _, _)
CoveragesUpTo(apps, enforced, n) ==
    IF n = 0 THEN <<>>
    ELSE Append(CoveragesUpTo(apps, enforced, n - 1), AppCoverage(apps[n], enforced))

\* analyze_ca_coverage: the pair (app_coverages, policy_summaries)
analyze_ca_coverage(ca_policies, apps) ==
    LET policy_summaries == _parse_policies(ca_policies)
        enforced == SelectSeq(policy_summaries, is_enforced)
    IN  << CoveragesUpTo(apps, enforced, Len(apps)), policy_summaries >>

\* app ids "app-a", "APP-A", "app-b" and the keywords "All", "ALL", "None"
APP_ID_A == <<97, 112, 112, 45, 97>>
APP_ID_A_UPPER == <<65, 80, 80, 45, 65>>
APP_ID_B == <<97, 112, 112, 45, 98>>
KW_ALL == <<65, 108, 108>>
KW_ALL_UPPER == <<65, 76, 76>>
KW_NONE == <<78, 111, 110, 101>>

\* a raw policy with every field present
_make_policy(policy_id, display_name, state, include_apps, exclude_apps) ==
    [ id |-> policy_id,
      displayName |-> display_name,
      state |-> state,
      conditions |->
          [applications |-> [includeApplications |-> include_apps,
                             excludeApplications |-> exclude_apps]],
      createdDateTime |-> TsZ(Clock0 - Days(300)),
      modifiedDateTime |-> TsZ(Clock0 - Days(100)) ]

_make_app(app_id, display_name) == [appId |-> app_id, displayName |-> display_name]

\* the raw policies the policy lists are made of
POLICY_ALL_BUT_A == _make_policy("p-1", "All but A", "enabled", <<KW_ALL>>, <<APP_ID_A_UPPER>>)
POLICY_ALL_UPPER == _make_policy("p-2", "Everything", "enabled", <<KW_NONE, KW_ALL_UPPER>>, <<>>)
POLICY_ONLY_A == _make_policy("p-3", "Only A", "enabled", <<APP_ID_A_UPPER>>, <<>>)
POLICY_LISTED_BUT_A == _make_policy("p-4", "Listed but A", "enabled", <<APP_ID_A, APP_ID_B>>, <<APP_ID_A>>)
POLICY_DISABLED == _make_policy("p-5", "Disabled", "disabled", <<KW_ALL>>, <<>>)
POLICY_REPORT_ONLY ==
    _make_policy("p-6", "Report only", "enabledForReportingButNotEnforced", <<APP_ID_A>>, <<>>)
POLICY_NO_STATE ==
    [ id |-> "p-7",
      conditions |-> [applications |-> [includeApplications |-> <<KW_ALL>>]] ]
POLICY_NO_CONDITIONS == [displayName |-> "No conditions", state |-> "enabled"]

PolicyOptions ==
    { POLICY_ALL_BUT_A, POLICY_ALL_UPPER, POLICY_ONLY_A, POLICY_LISTED_BUT_A,
      POLICY_DISABLED, POLICY_REPORT_ONLY, POLICY_NO_STATE, POLICY_NO_CONDITIONS }

\* the apps the app lists are made of
CaAppOptions ==
    { _make_app(APP_ID_A, "App A"), _make_app(APP_ID_A_UPPER, "App A upper"),
      _make_app(APP_ID_B, "App B"), [id |-> "test-sp-id"] }

InitCa ==
    /\ pc = "start_ca"
    /\ clock = Clock0
    /\ arg_ca_policies \in SeqsUpTo(PolicyOptions, MaxPolicies)
    /\ arg_ca_apps \in SeqsUpTo(CaAppOptions, MaxCaApps)
    /\ ret_ca = <<>>
    /\ arg_sp = EmptyDict
    /\ arg_stale_days = DEFAULT_STALE_DAYS
    /\ utc_reads = <<>>
    /\ ret_app = None
    /\ arg_score = 0
    /\ ret_band = ""
    /\ arg_raw_data = EmptyDict
    /\ ret_all = <<>>
    /\ ret_counts = EmptyDict
    /\ GetIdle

\* the policy list when analyze_ca_coverage returns: _parse_policies reads
\* each policy with .get and builds its id lists by comprehension
ca_policies_on_return(ca_policies) == ca_policies

\* the app list when analyze_ca_coverage returns: the loop reads app.get only;
\* the lowered appId is a local
apps_on_return(apps) == apps

AnalyzeCaCoverage ==
    /\ pc = "start_ca"
    /\ ret_ca' = analyze_ca_coverage(arg_ca_policies, arg_ca_apps)
    /\ pc' = "analyze_ca_coverage"
    /\ arg_ca_policies' = ca_policies_on_return(arg_ca_policies)
    /\ arg_ca_apps' = apps_on_return(arg_ca_apps)
    /\ UNCHANGED <<clock, arg_sp, arg_stale_days, utc_reads, ret_app, arg_score, ret_band,
                   arg_raw_data, ret_all, ret_counts>>
    /\ UNCHANGED get_vars

NextCa == AnalyzeCaCoverage

SpecCa == InitCa /\ [][NextCa]_vars

\* ── the three analysis entry points, each called once on its input ────────

InitCalls == InitApp \/ InitAll \/ InitCa

NextCalls == AnalyzeApp \/ AnalyzeAppRaises \/ AnalyzeAll \/ AnalyzeCaCoverage

SpecCalls == InitCalls /\ [][NextCalls]_vars

\* ── GraphClient._get of graph.py ─────────────────────────────────────────

MAX_RETRIES == 5
RETRY_BACKOFF_BASE == 2

\* what session.get can come back with: a RequestException, or a response
\* with a status code, for 200 whether its body is JSON, for 429 its
\* Retry-After header
NETWORK_ERROR == [kind |-> "RequestException"]
Response(status_code) == [kind |-> "response", status_code |-> status_code]
OK_JSON == [kind |-> "response", status_code |-> 200, json |-> TRUE]
OK_NOT_JSON == [kind |-> "response", status_code |-> 200, json |-> FALSE]
RateLimited(retry_after) == [kind |-> "response", status_code |-> 429, retry_after |-> retry_after]

\* Retry-After: absent, "7", "soon" and "-1"
HEADER_ABSENT == [tag |-> "absent"]
HEADER_SEVEN == [tag |-> "int", n |-> 7]
HEADER_TEXT == [tag |-> "text"]
HEADER_NEGATIVE == [tag |-> "int", n |-> 0 - 1]

\* return value / exception of the call
ReturnedBody == [kind |-> "returned", value |-> "resp.json()"]
Raised(error) == [kind |-> "raised", error |-> error]

LoopContinues_one_more(attempt) == attempt <= MAX_RETRIES

\* for attempt in range(MAX_RETRIES): the loop has a next value
LoopContinues(attempt) == attempt < MAX_RETRIES

\* attempt < MAX_RETRIES - 1
MayRetry(attempt) == attempt < MAX_RETRIES - 1

\* the seconds the 429 branch sleeps: the header as an int, the backoff when
\* the header is absent or int() raises ValueError
retry_after(resp, attempt) ==
    IF resp.retry_after.tag = "int" THEN resp.retry_after.n ELSE RETRY_BACKOFF_BASE ^ attempt

\* the variables of the analysis calls
analysis_vars ==
    <<clock, arg_sp, arg_stale_days, utc_reads, ret_app, arg_score, ret_band,
      arg_raw_data, ret_all, ret_counts, arg_ca_policies, arg_ca_apps, ret_ca>>

InitGet ==
    /\ pc = "get_loop"
    /\ GetIdle
    /\ clock = Clock0
    /\ arg_sp = EmptyDict
    /\ arg_stale_days = DEFAULT_STALE_DAYS
    /\ utc_reads = <<>>
    /\ ret_app = None
    /\ arg_score = 0
    /\ ret_band = ""
    /\ arg_raw_data = EmptyDict
    /\ ret_all = <<>>
    /\ ret_counts = EmptyDict
    /\ CaIdle

\* the request of one pass of the loop comes back with resp
Sent(resp) ==
    /\ pc = "get_loop"
    /\ LoopContinues(get_attempt)
    /\ get_sent' = get_sent + 1
    /\ get_log' = Append(get_log, resp)
    /\ UNCHANGED analysis_vars

\* continue: the loop takes its next value
Continue == get_attempt' = get_attempt + 1 /\ pc' = "get_loop" /\ UNCHANGED get_outcome

\* the call ends with a return value or an exception
Finish(outcome, at) == get_outcome' = outcome /\ pc' = at /\ UNCHANGED get_attempt

\* session.get raises RequestException: retried, re-raised on the last pass
GetNetworkError ==
    /\ Sent(NETWORK_ERROR)
    /\ IF MayRetry(get_attempt) THEN Continue
       ELSE Finish(Raised("RequestException"), "get_raised")

\* status 200: return resp.json(), which raises when the body is not JSON
GetOk ==
    \E resp \in {OK_JSON, OK_NOT_JSON} :
        /\ Sent(resp)
        /\ IF resp.json THEN Finish(ReturnedBody, "get_returned")
           ELSE Finish(Raised("JSONDecodeError"), "get_raised")

\* status 429: sleep retry_after seconds and continue; time.sleep raises
\* ValueError on a negative length
GetRateLimited ==
    \E header \in {HEADER_ABSENT, HEADER_SEVEN, HEADER_TEXT, HEADER_NEGATIVE} :
        /\ Sent(RateLimited(header))
        /\ IF retry_after(RateLimited(header), get_attempt) < 0
           THEN Finish(Raised("ValueError"), "get_raised")
           ELSE Continue

\* status 401 or 403: PermissionError
GetDenied ==
    \E status_code \in {401, 403} :
        /\ Sent(Response(status_code))
        /\ Finish(Raised("PermissionError"), "get_raised")

\* status 500, 502, 503 or 504 before the last pass: sleep and continue
GetServerError ==
    \E status_code \in {503, 504} :
        /\ MayRetry(get_attempt)
        /\ Sent(Response(status_code))
        /\ Continue

\* any other status, and a 5xx on the last pass: RuntimeError
GetOtherError ==
    \E status_code \in {404, 503, 504} :
        /\ status_code \in {500, 502, 503, 504} => ~MayRetry(get_attempt)
        /\ Sent(Response(status_code))
        /\ Finish(Raised("RuntimeError"), "get_raised")

\* the loop is over: RuntimeError "request failed after MAX_RETRIES retries"
GetExhausted ==
    /\ pc = "get_loop"
    /\ ~LoopContinues(get_attempt)
    /\ Finish(Raised("RuntimeError"), "get_raised")
    /\ UNCHANGED <<get_sent, get_log>>
    /\ UNCHANGED analysis_vars

NextGet ==
    \/ GetNetworkError
    \/ GetOk
    \/ GetRateLimited
    \/ GetDenied
    \/ GetServerError
    \/ GetOtherError
    \/ GetExhausted

SpecGet == InitGet /\ [][NextGet]_vars

\* the call runs on: every session.get ends within its timeout of 30 s and
\* every sleep is finite
FairSpecGet == SpecGet /\ WF_vars(NextGet)

\* ── Properties of analyze_app and _risk_band (checked under Spec) ────────

Returned == pc = "analyze_app"

\* the keys of the signals analyze_app returned
SignalKeys == { ret_app.signals[i].key : i \in DOMAIN ret_app.signals }

\* how many returned signals carry one of the keys
CountKeys(keys) == Cardinality({ i \in DOMAIN ret_app.signals : ret_app.signals[i].key \in keys })

RECURSIVE SumContributions(_, _)
SumContributions(signals, n) ==
    IF n = 0 THEN 0 ELSE SumContributions(signals, n - 1) + signals[n].score_contribution

ContributionTotal == SumContributions(ret_app.signals, Len(ret_app.signals))

InputIsFirstParty == Get(arg_sp, "appOwnerOrganizationId", NoneStr) \in MICROSOFT_TENANT_IDS

\* C1: every AppResult analyze_app returns, for every input record and stale
\* threshold, carries an integer risk_score between 0 and 100 inclusive.
C1_ScoreBounds ==
    Returned => ret_app.risk_score \in 0..100

\* C1 witness: the signals that fired add up to more than 100 and the score is 100
C1_Witness ==
    Returned /\ ContributionTotal > 100 /\ ret_app.risk_score = 100

\* C2: risk_score is min(100, sum of the score_contribution of the returned
\* signals): contributions add up, none cancels another, one clamp at the end.
C2_ScoreIsClampedSum ==
    Returned =>
        ret_app.risk_score = (IF ContributionTotal < 100 THEN ContributionTotal ELSE 100)

\* C2 witness: four or more signals fired, one of them a zero-weight marker,
\* and their sum stays below the clamp
C2_Witness ==
    /\ Returned
    /\ Len(ret_app.signals) >= 4
    /\ "microsoft_first_party" \in SignalKeys
    /\ ContributionTotal \in 1..99
    /\ ret_app.risk_score = ContributionTotal

\* the band the thresholds of the claim give a score
BandOfThresholds(s) ==
    CASE s >= 75 -> "critical"
      [] s >= 50 /\ s <= 74 -> "high"
      [] s >= 25 /\ s <= 49 -> "medium"
      [] s >= 1 /\ s <= 24 -> "low"
      [] s <= 0 -> "clean"

\* C3: _risk_band gives every integer exactly one of the five bands, by the
\* lower-inclusive thresholds 75 / 50 / 25 / 1 (so 24|25, 49|50, 74|75 fall on
\* different sides), and the risk_band of every AppResult of analyze_app is the
\* band of its risk_score.
C3_BandThresholds ==
    /\ pc = "risk_band" =>
          /\ ret_band \in {"critical", "high", "medium", "low", "clean"}
          /\ ret_band = BandOfThresholds(arg_score)
    /\ Returned => ret_app.risk_band = BandOfThresholds(ret_app.risk_score)

\* C3 witness: _risk_band has been called on the boundary score 25
C3_Witness ==
    pc = "risk_band" /\ arg_score = 25 /\ ret_band = "medium"

\* the clock reading the i-th credential of a loop was compared with, the loop's
\* readings following utc_reads[base], and the ticks from it to the credential's end
CredDelta(creds, base, i) ==
    EndDts(creds)[i][1] - utc_reads[base + ClockReadsUpTo(creds, i)]

\* the tier of a credential whose end lies delta ticks ahead: with
\* d = floor(delta / TicksPerDay), d <= n exactly when delta < (n + 1) * TicksPerDay
TierOfDelta(delta) ==
    IF delta < 0 THEN "expired"
    ELSE IF delta < Days(31) THEN "near_expiry"
    ELSE IF delta < Days(91) THEN "expiry_warning"
    ELSE "none"

\* the tiers the credentials of a loop fall into
TiersOf(creds, base) ==
    { TierOfDelta(CredDelta(creds, base, i)) : i \in { j \in DOMAIN creds : EndDts(creds)[j] # None } }
    \ {"none"}

SecretBase == 1 + (IF ret_app.days_since_sign_in # None THEN 1 ELSE 0)
CertBase == SecretBase + ClockReadsUpTo(ret_app.password_credentials, Len(ret_app.password_credentials))
SecretTiers == TiersOf(ret_app.password_credentials, SecretBase)
CertTiers == TiersOf(ret_app.key_credentials, CertBase)

\* the most urgent of a non-empty set of tiers
MostUrgent(tiers) ==
    IF "expired" \in tiers THEN "expired"
    ELSE IF "near_expiry" \in tiers THEN "near_expiry"
    ELSE "expiry_warning"

SecretKeyOf(tier) ==
    CASE tier = "expired" -> "expired_secret"
      [] tier = "near_expiry" -> "near_expiry_secret"
      [] tier = "expiry_warning" -> "expiry_warning_secret"

CertKeyOf(tier) ==
    CASE tier = "expired" -> "expired_cert"
      [] tier = "near_expiry" -> "near_expiry_cert"
      [] tier = "expiry_warning" -> "expiry_warning_cert"

SecretTierKeys == {"expired_secret", "near_expiry_secret", "expiry_warning_secret"}
CertTierKeys == {"expired_cert", "near_expiry_cert", "expiry_warning_cert"}

\* C4: the returned signals hold at most one of expired_secret,
\* near_expiry_secret, expiry_warning_secret, and it is the one of the most
\* urgent tier any password credential falls into; likewise for the three
\* certificate signals over the key credentials.
C4_OneTierSignal ==
    Returned =>
        /\ CountKeys(SecretTierKeys) <= 1
        /\ SignalKeys \cap SecretTierKeys =
              (IF SecretTiers = {} THEN {} ELSE {SecretKeyOf(MostUrgent(SecretTiers))})
        /\ CountKeys(CertTierKeys) <= 1
        /\ SignalKeys \cap CertTierKeys =
              (IF CertTiers = {} THEN {} ELSE {CertKeyOf(MostUrgent(CertTiers))})

\* C4 witness: the password credentials fall into the near-expiry and the
\* warning tier and near_expiry_secret alone is returned
C4_Witness ==
    /\ Returned
    /\ SecretTiers = {"near_expiry", "expiry_warning"}
    /\ SignalKeys \cap SecretTierKeys = {"near_expiry_secret"}

\* C5: a credential with a resolvable end is classified by d = floor((end - now)
\* in days), now being the clock reading it is compared with: d < 0 expired,
\* 0 <= d <= 30 near-expiry, 30 < d <= 90 expiry-warning, d > 90 no tier. The
\* flags of the AppResult say, for each tier, whether a credential is in it.
C5_TierBoundaries ==
    Returned =>
        /\ ret_app.has_expired_secret = ("expired" \in SecretTiers)
        /\ ret_app.has_near_expiry_secret = ("near_expiry" \in SecretTiers)
        /\ ret_app.has_expiry_warning_secret = ("expiry_warning" \in SecretTiers)
        /\ ret_app.has_expired_cert = ("expired" \in CertTiers)
        /\ ret_app.has_near_expiry_cert = ("near_expiry" \in CertTiers)
        /\ ret_app.has_expiry_warning_cert = ("expiry_warning" \in CertTiers)

\* C5 witness: one password credential ends exactly 30 days and 0 ticks after its
\* reading (d = 30) and is flagged near-expiry, not warning
C5_Witness ==
    /\ Returned
    /\ Len(ret_app.password_credentials) = 1
    /\ EndDts(ret_app.password_credentials)[1] # None
    /\ CredDelta(ret_app.password_credentials, SecretBase, 1) = Days(30)
    /\ ret_app.has_near_expiry_secret
    /\ ~ret_app.has_expiry_warning_secret

\* C6: no AppResult holds both no_owners and disabled_owner; for an app that is
\* not first-party no_owners fires exactly when the owner list is empty, and
\* disabled_owner fires only when the owner list is not empty.
C6_OwnerSignalsExclusive ==
    Returned =>
        /\ ~({"no_owners", "disabled_owner"} \subseteq SignalKeys)
        /\ ~InputIsFirstParty =>
              (("no_owners" \in SignalKeys) <=> (Len(Get(arg_sp, "_owners", <<>>)) = 0))
        /\ "disabled_owner" \in SignalKeys => Len(Get(arg_sp, "_owners", <<>>)) > 0

\* C6 witness: no owners, a non-empty disabled-owner-id list, and no_owners alone
C6_Witness ==
    /\ Returned
    /\ ~InputIsFirstParty
    /\ Len(Get(arg_sp, "_owners", <<>>)) = 0
    /\ Len(Get(arg_sp, "_disabledOwnerIds", <<>>)) > 0
    /\ "no_owners" \in SignalKeys
    /\ "disabled_owner" \notin SignalKeys

FirstPartySuppressed ==
    {"no_owners", "disabled_owner", "no_assignments", "stale", "never_signed_in", "multi_tenant_app"}

\* C7: for an app whose appOwnerOrganizationId is a known Microsoft tenant id,
\* whatever its other fields, none of no_owners, disabled_owner, no_assignments,
\* stale, never_signed_in, multi_tenant_app is returned and microsoft_first_party
\* is, with severity info and contribution 0; for any other app
\* microsoft_first_party is not returned.
C7_FirstPartySuppression ==
    Returned =>
        IF InputIsFirstParty
        THEN /\ SignalKeys \cap FirstPartySuppressed = {}
             /\ \E i \in DOMAIN ret_app.signals :
                    ret_app.signals[i] = Signal("microsoft_first_party", "info", 0)
             /\ \A i \in DOMAIN ret_app.signals :
                    ret_app.signals[i].key = "microsoft_first_party" =>
                        ret_app.signals[i] = Signal("microsoft_first_party", "info", 0)
        ELSE "microsoft_first_party" \notin SignalKeys

\* C7 witness: a first-party app with no owners, no assignments, an activity
\* block without a sign-in and a multi-tenant audience
C7_Witness ==
    /\ Returned
    /\ InputIsFirstParty
    /\ Len(Get(arg_sp, "_owners", <<>>)) = 0
    /\ Len(Get(arg_sp, "_appPermissions", <<>>)) = 0
    /\ Get(arg_sp, "accountEnabled", TRUE)
    /\ Get(arg_sp, "_signInActivity", EmptyDict) = SIGNIN_NO_ACTIVITY
    /\ Get(arg_sp, "signInAudience", "") = "AzureADMultipleOrgs"
    /\ "microsoft_first_party" \in SignalKeys

\* the rank of a severity: critical > high > medium > low > info
SeverityRank(sev) ==
    CASE sev = "critical" -> 5
      [] sev = "high" -> 4
      [] sev = "medium" -> 3
      [] sev = "low" -> 2
      [] sev = "info" -> 1

\* the signals other than the first-party marker, in list order
NonMarkerSignals == SelectSeq(ret_app.signals, IsNotMarker)

\* the first of the non-marker signals that no other one outranks
FirstOfHighestSeverity ==
    LET top == { i \in DOMAIN NonMarkerSignals :
                    \A j \in DOMAIN NonMarkerSignals :
                        SeverityRank(NonMarkerSignals[j].severity)
                            <= SeverityRank(NonMarkerSignals[i].severity) }
    IN  NonMarkerSignals[MinOf(top)]

\* C8: primary_recommendation is the no-issues message when no signal fired, the
\* first-party message when only the microsoft_first_party marker fired, and
\* otherwise the text mapped to the first signal, in list order, among the
\* non-marker signals of the highest severity present.
C8_PrimaryRecommendation ==
    Returned =>
        ret_app.primary_recommendation =
            (IF ret_app.signals = <<>> THEN NO_ISSUES_MESSAGE
             ELSE IF NonMarkerSignals = <<>> THEN FIRST_PARTY_MESSAGE
             ELSE _recommendation_for_signal(FirstOfHighestSeverity.key, ret_app.account_enabled))

\* C8 witness: a high signal precedes two critical ones and the first critical
\* one decides
C8_Witness ==
    /\ Returned
    /\ Len(ret_app.signals) >= 3
    /\ ret_app.signals[1].severity = "high"
    /\ CountKeys({"expired_secret", "expired_cert"}) = 2
    /\ ret_app.primary_recommendation = recs.expired_secret

\* ── Properties of analyze_all and band_counts (checked under SpecAll) ────

AllReturned == pc \in {"analyze_all", "band_counts"}

\* the app list analyze_all mapped analyze_app over
InputApps == Get(arg_raw_data, "apps", <<>>)

\* the sort key of each result of a list, in list order
SortKeys(rs) == [i \in DOMAIN rs |-> <<rs[i].risk_score, lower(rs[i].display_name)>>]

\* rs taken in the order p
Permuted(rs, p) == [i \in DOMAIN rs |-> rs[p[i]]]

\* C9: analyze_all returns one AppResult per entry of the snapshot's app list
\* (none when there is no entry), with risk_score non-increasing along the list
\* and, among equal scores, lower-cased display_name non-decreasing; had the
\* results come to the sort in any other order the list would carry the same
\* (score, lower-cased name) keys in the same positions.
C9_SortedResults ==
    AllReturned =>
        LET unsorted == AppResults(InputApps, arg_stale_days, utc_reads)
            n == Len(InputApps)
        IN  /\ Len(ret_all) = n
            /\ \E p \in Permutations(1..n) : \A i \in 1..n : ret_all[p[i]] = unsorted[i]
            /\ \A i \in 1..(n - 1) :
                  /\ ret_all[i].risk_score >= ret_all[i + 1].risk_score
                  /\ ret_all[i].risk_score = ret_all[i + 1].risk_score =>
                        ~StrLess(lower(ret_all[i + 1].display_name), lower(ret_all[i].display_name))
            /\ \A p \in Permutations(1..n) :
                  SortKeys(sorted(Permuted(ret_all, p))) = SortKeys(ret_all)

\* C9 witness: "Zebra" came before "apple" with the same score, behind an app
\* of a lower score, and the list returned is apple, Zebra, then the lower score
C9_Witness ==
    /\ AllReturned
    /\ Len(InputApps) = 3
    /\ InputApps[1] = APP_CLEAN
    /\ InputApps[2].displayName = NAME_ZEBRA
    /\ InputApps[3].displayName = NAME_APPLE
    /\ ret_all[1].display_name = NAME_APPLE
    /\ ret_all[2].display_name = NAME_ZEBRA
    /\ ret_all[1].risk_score = ret_all[2].risk_score
    /\ ret_all[3].risk_score < ret_all[2].risk_score

BandNames == {"critical", "high", "medium", "low", "clean"}

RECURSIVE SumOver(_, _)
SumOver(f, keys) ==
    IF keys = {} THEN 0
    ELSE LET k == CHOOSE x \in keys : TRUE IN f[k] + SumOver(f, keys \ {k})

\* C10: band_counts returns a mapping with exactly the keys critical, high,
\* medium, low, clean, for every results list, the empty one included; each
\* value is the number of results of that band, so the values add up to the
\* number of results.
C10_BandCounts ==
    pc = "band_counts" =>
        /\ DOMAIN ret_counts = BandNames
        /\ \A b \in BandNames :
              ret_counts[b] = Cardinality({ i \in DOMAIN ret_all : ret_all[i].risk_band = b })
        /\ SumOver(ret_counts, DOMAIN ret_counts) = Len(ret_all)

\* C10 witness: three results in two bands, the other three bands counted 0
C10_Witness ==
    /\ pc = "band_counts"
    /\ Len(ret_all) = 3
    /\ DOMAIN ret_counts = BandNames
    /\ ret_counts["low"] = 2
    /\ ret_counts["critical"] = 1
    /\ ret_counts["high"] = 0
    /\ ret_counts["medium"] = 0
    /\ ret_counts["clean"] = 0

\* ── Properties of analyze_ca_coverage (checked under SpecCa) ─────────────

CaReturned == pc = "analyze_ca_coverage"

\* the two lists analyze_ca_coverage returned
Coverages == ret_ca[1]
Summaries == ret_ca[2]

\* the include and exclude lists and the state a raw policy carries
RawInclude(p) ==
    Get(Get(Get(p, "conditions", EmptyDict), "applications", EmptyDict), "includeApplications", <<>>)
RawExclude(p) ==
    Get(Get(Get(p, "conditions", EmptyDict), "applications", EmptyDict), "excludeApplications", <<>>)
RawEnabled(p) == Get(p, "state", "disabled") = "enabled"

\* an id of the list is the app's id, letter case aside
Lists(ids, app) == \E i \in DOMAIN ids : lower(ids[i]) = lower(Get(app, "appId", <<>>))

\* the list holds the keyword "All", letter case aside
HasAll(ids) == \E i \in DOMAIN ids : lower(ids[i]) = STR_ALL

\* C11: exclusion wins over inclusion. An app whose id is on the exclude list of
\* an enabled policy is not credited with that policy, whether the policy
\* includes all apps or lists the app; an app that is not on the exclude list of
\* an enabled include-all policy is credited with it.
C11_ExclusionWins ==
    CaReturned =>
        \A a \in DOMAIN arg_ca_apps : \A i \in DOMAIN arg_ca_policies :
            LET policy == arg_ca_policies[i]
                name == Get(policy, "displayName", UNNAMED)
            IN  RawEnabled(policy) =>
                    /\ Lists(RawExclude(policy), arg_ca_apps[a]) =>
                          ~InList(name, Coverages[a].policy_names)
                    /\ (HasAll(RawInclude(policy)) /\ ~Lists(RawExclude(policy), arg_ca_apps[a])) =>
                          InList(name, Coverages[a].policy_names)

\* C11 witness: app-a is excluded from an include-all policy and from a policy
\* that lists it, and is credited with neither, while app-b is credited with both
C11_Witness ==
    /\ CaReturned
    /\ arg_ca_policies = <<POLICY_ALL_BUT_A, POLICY_LISTED_BUT_A>>
    /\ Len(arg_ca_apps) = 2
    /\ Get(arg_ca_apps[1], "appId", <<>>) = APP_ID_A
    /\ Get(arg_ca_apps[2], "appId", <<>>) = APP_ID_B
    /\ Coverages[1].policy_names = <<>>
    /\ Coverages[2].policy_names = <<"All but A", "Listed but A">>

\* C12: a policy whose state is not exactly "enabled" (or is missing) adds
\* nothing to any app's coverage: the coverages are those of the enabled
\* policies alone. Every input policy has its summary, in input order, and the
\* summary is_enforced exactly when the policy's state is "enabled".
C12_OnlyEnabledCount ==
    CaReturned =>
        /\ Coverages = analyze_ca_coverage(SelectSeq(arg_ca_policies, RawEnabled), arg_ca_apps)[1]
        /\ Len(Summaries) = Len(arg_ca_policies)
        /\ \A i \in DOMAIN arg_ca_policies :
              /\ Summaries[i].policy_id = Get(arg_ca_policies[i], "id", "")
              /\ Summaries[i].display_name = Get(arg_ca_policies[i], "displayName", UNNAMED)
              /\ Summaries[i].state = Get(arg_ca_policies[i], "state", "disabled")
              /\ is_enforced(Summaries[i]) = RawEnabled(arg_ca_policies[i])

\* C12 witness: a report-only policy that lists app-a and a disabled include-all
\* policy are summarised, and app-a is not covered
C12_Witness ==
    /\ CaReturned
    /\ arg_ca_policies = <<POLICY_REPORT_ONLY, POLICY_DISABLED>>
    /\ Len(arg_ca_apps) >= 1
    /\ Get(arg_ca_apps[1], "appId", <<>>) = APP_ID_A
    /\ ~Coverages[1].is_covered
    /\ Summaries[1].state = "enabledForReportingButNotEnforced"
    /\ ~is_enforced(Summaries[1])
    /\ ~is_enforced(Summaries[2])

\* an id with its letters in upper case, in lower case, or each in the other case
Recase(id, how) ==
    [i \in DOMAIN id |->
        IF id[i] >= 97 /\ id[i] <= 122 /\ how \in {"upper", "swap"} THEN id[i] - 32
        ELSE IF id[i] >= 65 /\ id[i] <= 90 /\ how \in {"lower", "swap"} THEN id[i] + 32
        ELSE id[i]]

RecaseList(ids, how) == [i \in DOMAIN ids |-> Recase(ids[i], how)]

\* a raw policy with the ids of its include and exclude lists recased
RecasePolicy(p, how) ==
    [k \in DOMAIN p |->
        IF k # "conditions" THEN p[k]
        ELSE [j \in DOMAIN p[k] |->
                IF j # "applications" THEN p[k][j]
                ELSE [l \in DOMAIN p[k][j] |-> RecaseList(p[k][j][l], how)]]]

\* an app with its appId recased
RecaseApp(app, how) ==
    [k \in DOMAIN app |-> IF k = "appId" THEN Recase(app[k], how) ELSE app[k]]

\* is_covered and policy_names of each coverage of a list
CoveredBy(coverages) ==
    [i \in DOMAIN coverages |-> <<coverages[i].is_covered, coverages[i].policy_names>>]

\* C13: matching of app ids is case-insensitive on the include list, the exclude
\* list and the app's appId: with the ids of the policies recased one way and
\* those of the apps another, every app's is_covered and policy_names stay as
\* they are.
C13_CaseInsensitiveIds ==
    CaReturned =>
        \A hp \in {"upper", "lower", "swap"} : \A ha \in {"upper", "lower", "swap"} :
            CoveredBy(analyze_ca_coverage(
                          [i \in DOMAIN arg_ca_policies |-> RecasePolicy(arg_ca_policies[i], hp)],
                          [i \in DOMAIN arg_ca_apps |-> RecaseApp(arg_ca_apps[i], ha)])[1])
            = CoveredBy(Coverages)

\* C13 witness: the app "app-a" is covered by a policy that lists "APP-A" and is
\* kept out of an include-all policy that excludes "APP-A"
C13_Witness ==
    /\ CaReturned
    /\ arg_ca_policies = <<POLICY_ONLY_A, POLICY_ALL_BUT_A>>
    /\ Len(arg_ca_apps) >= 1
    /\ Get(arg_ca_apps[1], "appId", <<>>) = APP_ID_A
    /\ Coverages[1].policy_names = <<"Only A">>

\* the names, in policy order, of those of the first n policies that are
\* enabled, include the app (by "All" or by its id) and do not exclude it
RECURSIVE ExpectedNames(_, _, _)
ExpectedNames(policies, app, n) ==
    IF n = 0 THEN <<>>
    ELSE LET policy == policies[n]
             credits == /\ RawEnabled(policy)
                        /\ HasAll(RawInclude(policy)) \/ Lists(RawInclude(policy), app)
                        /\ ~Lists(RawExclude(policy), app)
         IN  IF credits
             THEN Append(ExpectedNames(policies, app, n - 1), Get(policy, "displayName", UNNAMED))
             ELSE ExpectedNames(policies, app, n - 1)

\* C14: analyze_ca_coverage returns one AppCoverage per input app, in input
\* order; its policy_names is the list, in policy order, of the display names of
\* the enabled policies that include the app and do not exclude it, and
\* is_covered is true exactly when that list is not empty.
C14_CoveragePerApp ==
    CaReturned =>
        /\ Len(Coverages) = Len(arg_ca_apps)
        /\ \A a \in DOMAIN arg_ca_apps :
              /\ Coverages[a].app_id = lower(Get(arg_ca_apps[a], "appId", <<>>))
              /\ Coverages[a].display_name = Get(arg_ca_apps[a], "displayName", UNNAMED)
              /\ Coverages[a].policy_names =
                    ExpectedNames(arg_ca_policies, arg_ca_apps[a], Len(arg_ca_policies))
              /\ Coverages[a].is_covered = (Coverages[a].policy_names # <<>>)

\* C14 witness: two apps; the second is credited with two policies in policy
\* order, the first with none
C14_Witness ==
    /\ CaReturned
    /\ arg_ca_policies = <<POLICY_LISTED_BUT_A, POLICY_ALL_BUT_A>>
    /\ Len(arg_ca_apps) = 2
    /\ Get(arg_ca_apps[1], "appId", <<>>) = APP_ID_A_UPPER
    /\ Get(arg_ca_apps[2], "appId", <<>>) = APP_ID_B
    /\ ~Coverages[1].is_covered
    /\ Coverages[2].is_covered
    /\ Coverages[2].policy_names = <<"Listed but A", "All but A">>

\* ── The clock within and across calls of analyze_app ─────────────────────

\* the credentials of the record, secrets then certificates
AllCredentials == ret_app.password_credentials \o ret_app.key_credentials

\* all credentials carry one and the same resolvable end timestamp
SameEndEverywhere ==
    /\ \A i \in DOMAIN AllCredentials : _parse_dt(Get(AllCredentials[i], "endDateTime", TsNone)) # None
    /\ \A i, j \in DOMAIN AllCredentials :
          Get(AllCredentials[i], "endDateTime", TsNone) = Get(AllCredentials[j], "endDateTime", TsNone)

\* the expiry tiers the result says some credential is in
FlaggedTiers ==
    { t \in {"expired", "near_expiry", "expiry_warning"} :
        \/ t = "expired" /\ (ret_app.has_expired_secret \/ ret_app.has_expired_cert)
        \/ t = "near_expiry" /\ (ret_app.has_near_expiry_secret \/ ret_app.has_near_expiry_cert)
        \/ t = "expiry_warning" /\ (ret_app.has_expiry_warning_secret \/ ret_app.has_expiry_warning_cert) }

\* C15: one analyze_app call reads the clock once and every rule sees that
\* instant, so credentials with identical end timestamps are placed in the same
\* expiry tier even when the wall clock advances during the call.
C15_OneNowPerCall ==
    (Returned /\ Len(AllCredentials) >= 2 /\ SameEndEverywhere) =>
        Cardinality(FlaggedTiers) <= 1

\* C16: analyze_app is deterministic: a second call with the same record, the
\* same stale threshold and the same `now` returns the AppResult of the first.
C16_SameInputSameResult ==
    [][ (pc = "analyze_app" /\ pc' = "analyze_app_again" /\ utc_reads'[1] = utc_reads[1])
            => ret_app' = ret_app ]_vars

\* ── The inputs after a call ──────────────────────────────────────────────

\* C17: analyze_app, analyze_all and analyze_ca_coverage leave their inputs
\* unchanged: across every call the app record, the snapshot, the policy list
\* and the app list keep the value they had before the call.
C17_InputsUnchanged ==
    [][ /\ arg_sp' = arg_sp
        /\ arg_raw_data' = arg_raw_data
        /\ arg_ca_policies' = arg_ca_policies
        /\ arg_ca_apps' = arg_ca_apps ]_vars

\* analyze_all has returned from a snapshot of two apps that it had to reorder
C17_Witness ==
    /\ AllReturned
    /\ "apps" \in DOMAIN arg_raw_data
    /\ Len(arg_raw_data["apps"]) = 2
    /\ ret_all[1].display_name = Get(arg_raw_data["apps"][2], "displayName", UNKNOWN_NAME)
    /\ ret_all[1].display_name # ret_all[2].display_name

\* ── A snapshot without an app list ───────────────────────────────────────

\* what analyze_all gives the caller for the valid snapshot of zero apps
ZeroAppsOutcome == analyze_all([tenant |-> "contoso", apps |-> <<>>], arg_stale_days, <<>>)

\* C18: analyze_all signals a failure when the snapshot has no app list, and
\* the caller can tell that outcome from the one of a snapshot with zero apps,
\* which is an empty result list returned without error.
C18_MissingAppListSignalled ==
    (AllReturned /\ "apps" \notin DOMAIN arg_raw_data) => ret_all # ZeroAppsOutcome

\* ── Partially populated records ──────────────────────────────────────────

\* the fields analyze_app reads from a record
RecordKeys ==
    { "id", "appId", "displayName", "accountEnabled", "servicePrincipalType",
      "createdDateTime", "appOwnerOrganizationId", "signInAudience",
      "passwordCredentials", "keyCredentials", "replyUrls",
      "oauth2AllowIdTokenIssuance", "oauth2AllowImplicitFlow",
      "_assignments", "_owners", "_delegatedGrants", "_appPermissions",
      "_signInActivity", "_disabledOwnerIds" }

\* the value that stands for an absent field: the empty list for a list, the
\* empty mapping for the sign-in block, and for a scalar the empty string, no
\* timestamp, no owning tenant, false for the two grant flags, true for
\* accountEnabled (an app is taken as enabled) and "Unknown" for the name
NeutralDefault(k) ==
    CASE k \in {"id", "appId", "servicePrincipalType", "signInAudience"} -> ""
      [] k = "displayName" -> UNKNOWN_NAME
      [] k = "accountEnabled" -> TRUE
      [] k \in {"oauth2AllowIdTokenIssuance", "oauth2AllowImplicitFlow"} -> FALSE
      [] k = "createdDateTime" -> TsNone
      [] k = "appOwnerOrganizationId" -> NoneStr
      [] k = "_signInActivity" -> EmptyDict
      [] OTHER -> <<>>

\* the record with every absent field filled in
Completed(sp) ==
    [k \in RecordKeys |-> IF k \in DOMAIN sp THEN sp[k] ELSE NeutralDefault(k)]

AppResultFields ==
    { "sp_id", "app_id", "display_name", "account_enabled", "sp_type",
      "created_datetime", "last_sign_in", "days_since_sign_in", "owner_count",
      "assignment_count", "has_expired_secret", "has_expired_cert",
      "has_near_expiry_secret", "has_near_expiry_cert", "has_high_privilege",
      "signals", "risk_score", "risk_band", "primary_recommendation",
      "is_microsoft_first_party", "is_tool_artifact", "disabled_owner_count",
      "has_expiry_warning_secret", "has_expiry_warning_cert", "has_no_reply_urls",
      "has_wildcard_redirect", "has_excessive_delegated", "has_implicit_grant",
      "is_multi_tenant", "has_mixed_credentials", "owners", "password_credentials",
      "key_credentials", "delegated_grants", "app_permissions" }

WellFormedResult(r) ==
    /\ DOMAIN r = AppResultFields
    /\ r.risk_score \in 0..100
    /\ r.risk_band \in BandNames
    /\ r.owner_count \in Nat /\ r.assignment_count \in Nat /\ r.disabled_owner_count \in Nat
    /\ r.account_enabled \in BOOLEAN
    /\ \A f \in { "has_expired_secret", "has_expired_cert", "has_near_expiry_secret",
                  "has_near_expiry_cert", "has_high_privilege", "is_microsoft_first_party",
                  "is_tool_artifact", "has_expiry_warning_secret", "has_expiry_warning_cert",
                  "has_no_reply_urls", "has_wildcard_redirect", "has_excessive_delegated",
                  "has_implicit_grant", "is_multi_tenant", "has_mixed_credentials" } :
          r[f] \in BOOLEAN
    /\ \A i \in DOMAIN r.signals :
          DOMAIN r.signals[i] = {"key", "severity", "score_contribution"}

NoEnd(creds) == { i \in DOMAIN creds : _parse_dt(Get(creds[i], "endDateTime", TsNone)) = None }

\* _parse_dt gives None for None, "" and malformed text; _days_since and
\* _days_until give None for None
AbsentStaysAbsent ==
    /\ \A ts \in {TsNone, TsEmpty, TsBad} : ~_parse_dt_raises(ts) /\ _parse_dt(ts) = None
    /\ \A now \in {Clock0, clock} : _days_since(None, now) = None /\ _days_until(None, now) = None

\* a record all of whose secrets (certificates) have no usable end gets no
\* expiry flag and no expiry signal for them, and no long_lived_secret
NoEndNoSignal ==
    Returned =>
        /\ NoEnd(ret_app.password_credentials) = DOMAIN ret_app.password_credentials =>
              /\ ~ret_app.has_expired_secret
              /\ ~ret_app.has_near_expiry_secret
              /\ ~ret_app.has_expiry_warning_secret
              /\ ~AnyKey(ret_app.signals, {"expired_secret", "near_expiry_secret",
                                           "expiry_warning_secret", "long_lived_secret"})
        /\ NoEnd(ret_app.key_credentials) = DOMAIN ret_app.key_credentials =>
              /\ ~ret_app.has_expired_cert
              /\ ~ret_app.has_near_expiry_cert
              /\ ~ret_app.has_expiry_warning_cert
              /\ ~AnyKey(ret_app.signals, {"expired_cert", "near_expiry_cert",
                                           "expiry_warning_cert"})

\* C20: _parse_dt returns None for None, empty or malformed text and never
\* raises, _days_since and _days_until return None for an absent timestamp, and
\* a credential whose end is absent or unparseable triggers none of the
\* expired, near-expiry, expiry-warning and long-lived signals.
C20_AbsentTimestamps ==
    /\ pc # "analyze_app_raised"
    /\ AbsentStaysAbsent
    /\ NoEndNoSignal

\* ── The sign-in rules ────────────────────────────────────────────────────

\* the returned signals with this key
SignalsWithKey(key) == { ret_app.signals[i] : i \in { j \in DOMAIN ret_app.signals : ret_app.signals[j].key = key } }

\* the signal with this key, severity and weight is in the result, once
FiredAs(key, severity, weight) ==
    /\ CountKeys({key}) = 1
    /\ SignalsWithKey(key) = { [key |-> key, severity |-> severity, score_contribution |-> weight] }

\* the reported last sign-in resolves to an instant
LastSignInResolves == ret_app.last_sign_in.tag \in {"z", "offset"}

\* whole days from the reported last sign-in to the clock reading taken for it
ElapsedDays == (utc_reads[2] - (ret_app.last_sign_in.t - ret_app.last_sign_in.off)) \div TicksPerDay

\* thresholds above the one of the call
HigherThresholds == { arg_stale_days + 1, arg_stale_days + 2, 2 * arg_stale_days }

\* C21: for a non-first-party app whose last sign-in resolves, stale (high, 30)
\* fires exactly when the whole days elapsed since that sign-in are strictly
\* more than stale_days, not at exactly stale_days, and a higher stale_days
\* never turns a result without stale into one with stale.
C21_StaleThreshold ==
    (Returned /\ ~InputIsFirstParty /\ LastSignInResolves) =>
        /\ ("stale" \in SignalKeys) = (ElapsedDays > arg_stale_days)
        /\ "stale" \in SignalKeys => FiredAs("stale", "high", 30)
        /\ "stale" \notin SignalKeys =>
              \A higher \in HigherThresholds :
                  ~AnyKey(analyze_app(arg_sp, higher, utc_reads).signals, {"stale"})

\* a non-first-party app last seen exactly stale_days whole days ago: not stale
C21_Witness ==
    /\ Returned
    /\ ~InputIsFirstParty
    /\ LastSignInResolves
    /\ ElapsedDays = arg_stale_days
    /\ "stale" \notin SignalKeys

\* the record carries a sign-in activity block: a mapping with entries (the
\* collector writes the empty mapping for an app it has no sign-in record of)
ActivityBlockPresent == DOMAIN Get(arg_sp, "_signInActivity", EmptyDict) # {}

\* C22: for a non-first-party app, never_signed_in (high, 35) fires exactly
\* when the sign-in activity block is present and no last sign-in resolves
\* from it; without an activity block it does not fire; never_signed_in and
\* stale are never both in one result.
C22_NeverSignedIn ==
    Returned =>
        /\ ~InputIsFirstParty =>
              /\ ("never_signed_in" \in SignalKeys) = (ActivityBlockPresent /\ ~LastSignInResolves)
              /\ "never_signed_in" \in SignalKeys => FiredAs("never_signed_in", "high", 35)
        /\ ~ActivityBlockPresent => "never_signed_in" \notin SignalKeys
        /\ ~({"never_signed_in", "stale"} \subseteq SignalKeys)

\* a non-first-party app with an activity block that holds no timestamp:
\* never_signed_in fired, stale did not
C22_Witness ==
    /\ Returned
    /\ ~InputIsFirstParty
    /\ ActivityBlockPresent
    /\ ret_app.last_sign_in = TsNone
    /\ FiredAs("never_signed_in", "high", 35)
    /\ "stale" \notin SignalKeys

\* ── The owner rule ───────────────────────────────────────────────────────

\* some owner of the input record has its id in the record's disabled-owner ids
SomeOwnerDisabled ==
    LET owners == Get(arg_sp, "_owners", <<>>)
        disabled_owner_ids == Get(arg_sp, "_disabledOwnerIds", <<>>)
    IN  \E i \in DOMAIN owners : \E j \in DOMAIN disabled_owner_ids :
            Get(owners[i], "id", NoneStr) = disabled_owner_ids[j]

\* C23: for a non-first-party app, disabled_owner (high, 15) fires exactly when
\* the owner list is non-empty and some owner has its id in the
\* disabled-owner-id list; a list naming none of the owners does not fire it.
C23_DisabledOwnerMembership ==
    (Returned /\ ~InputIsFirstParty) =>
        /\ ("disabled_owner" \in SignalKeys) = (Len(Get(arg_sp, "_owners", <<>>)) > 0 /\ SomeOwnerDisabled)
        /\ "disabled_owner" \in SignalKeys => FiredAs("disabled_owner", "high", 15)

\* ── Assignments and the disabled service principal ───────────────────────

\* the input record's account is enabled
InputEnabled == Get(arg_sp, "accountEnabled", TRUE)

InputHoldsHighRole ==
    LET app_permissions == Get(arg_sp, "_assignments", <<>>)
    IN  \E i \in DOMAIN app_permissions :
            Get(app_permissions[i], "appRoleId", NoneStr) \in HIGH_PRIVILEGE_ROLE_IDS

\* a stale or never_signed_in signal is in the result
StalenessFired == SignalKeys \cap {"stale", "never_signed_in"} # {}

\* C25: high_privilege_stale (critical, 25) fires exactly when the app holds a
\* role assignment whose appRoleId is in the high-privilege role set and a
\* stale or never_signed_in signal fired in the same evaluation; a high role
\* without staleness, or staleness without a high role, does not fire it.
C25_HighPrivilegeStale ==
    Returned =>
        /\ ("high_privilege_stale" \in SignalKeys) = (InputHoldsHighRole /\ StalenessFired)
        /\ "high_privilege_stale" \in SignalKeys => FiredAs("high_privilege_stale", "critical", 25)
        /\ ret_app.has_high_privilege = InputHoldsHighRole

\* an app holding a high-privilege role whose sign-in is recent: no
\* high_privilege_stale
C25_Witness ==
    /\ Returned
    /\ InputHoldsHighRole
    /\ LastSignInResolves
    /\ ~StalenessFired
    /\ "high_privilege_stale" \notin SignalKeys

\* the grants of the input record some token of whose scope string is a
\* high-privilege delegated scope
MatchingGrants ==
    LET delegated_grants == Get(arg_sp, "_delegatedGrants", <<>>)
    IN  { i \in DOMAIN delegated_grants :
            \E j \in DOMAIN split(Get(delegated_grants[i], "scope", <<>>)) :
                split(Get(delegated_grants[i], "scope", <<>>))[j] \in HIGH_PRIVILEGE_DELEGATED_SCOPES }

\* C26: excessive_delegated_permissions fires exactly when some
\* whitespace-separated token of some delegated grant's scope string is in the
\* high-privilege delegated-scope set, at most once however many grants match,
\* as critical with weight 25 if stale or never_signed_in fired in the same
\* evaluation and as high with weight 20 otherwise.
C26_ExcessiveDelegated ==
    Returned =>
        /\ ("excessive_delegated_permissions" \in SignalKeys) = (MatchingGrants # {})
        /\ CountKeys({"excessive_delegated_permissions"}) <= 1
        /\ (MatchingGrants # {} /\ StalenessFired) =>
              FiredAs("excessive_delegated_permissions", "critical", 25)
        /\ (MatchingGrants # {} /\ ~StalenessFired) =>
              FiredAs("excessive_delegated_permissions", "high", 20)

\* two matching grants on an app with a stale-kind signal: one critical signal
C26_Witness ==
    /\ Returned
    /\ Cardinality(MatchingGrants) = 2
    /\ StalenessFired
    /\ FiredAs("excessive_delegated_permissions", "critical", 25)

\* the audiences that make an app multi-tenant
MultiTenantAudiences == {"AzureADMultipleOrgs", "AzureADandPersonalMicrosoftAccount"}

\* C27: for a non-first-party app whose signInAudience is AzureADMultipleOrgs
\* or AzureADandPersonalMicrosoftAccount, multi_tenant_app fires as high with
\* weight 15 if the app holds a high-privilege role or a high-privilege
\* delegated scope, and as medium with weight 10 otherwise; for any other
\* audience it does not fire.
C27_MultiTenant ==
    (Returned /\ ~InputIsFirstParty) =>
        IF Get(arg_sp, "signInAudience", "") \in MultiTenantAudiences
        THEN IF InputHoldsHighRole \/ MatchingGrants # {}
             THEN FiredAs("multi_tenant_app", "high", 15)
             ELSE FiredAs("multi_tenant_app", "medium", 10)
        ELSE "multi_tenant_app" \notin SignalKeys

\* a multi-tenant app without a high-privilege role but with a high-privilege
\* delegated scope: multi_tenant_app is high
C27_Witness ==
    /\ Returned
    /\ ~InputIsFirstParty
    /\ Get(arg_sp, "signInAudience", "") \in MultiTenantAudiences
    /\ ~InputHoldsHighRole
    /\ MatchingGrants # {}
    /\ FiredAs("multi_tenant_app", "high", 15)

\* ── The policy summaries ─────────────────────────────────────────────────

\* the entries of a list, lower-cased
LoweredSet(ids) == { lower(ids[i]) : i \in DOMAIN ids }

\* every entry of the list is in lower case
AllLowerCase(ids) == \A i \in DOMAIN ids : lower(ids[i]) = ids[i]

\* C28: _parse_policies yields one PolicySummary per raw policy, in order,
\* with state "disabled" when the policy has none, includes_all_apps true iff
\* some include entry is "all" in any letter case, included_app_ids in lower
\* case without "all" and "none" in any casing (and holding the other include
\* entries), and excluded_app_ids the exclude entries in lower case.
C28_PolicySummaries ==
    CaReturned =>
        /\ Len(Summaries) = Len(arg_ca_policies)
        /\ \A i \in DOMAIN arg_ca_policies :
              /\ Summaries[i].policy_id = Get(arg_ca_policies[i], "id", "")
              /\ Summaries[i].state = Get(arg_ca_policies[i], "state", "disabled")
              /\ Summaries[i].includes_all_apps = HasAll(RawInclude(arg_ca_policies[i]))
              /\ AllLowerCase(Summaries[i].included_app_ids)
              /\ \A j \in DOMAIN Summaries[i].included_app_ids :
                    Summaries[i].included_app_ids[j] \notin {STR_ALL, STR_NONE}
              /\ LoweredSet(Summaries[i].included_app_ids) =
                    LoweredSet(RawInclude(arg_ca_policies[i])) \ {STR_ALL, STR_NONE}
              /\ AllLowerCase(Summaries[i].excluded_app_ids)
              /\ Len(Summaries[i].excluded_app_ids) = Len(RawExclude(arg_ca_policies[i]))
              /\ LoweredSet(Summaries[i].excluded_app_ids) = LoweredSet(RawExclude(arg_ca_policies[i]))

\* a policy that includes "ALL" and "none" in mixed case and has no state,
\* next to one with an upper-case id: the first is summarised as includes-all
\* with no included id
C28_Witness ==
    /\ CaReturned
    /\ \E i \in DOMAIN arg_ca_policies :
          /\ HasAll(RawInclude(arg_ca_policies[i]))
          /\ ~AllLowerCase(RawInclude(arg_ca_policies[i]))
          /\ Summaries[i].includes_all_apps
          /\ Summaries[i].included_app_ids = <<>>
    /\ \E i \in DOMAIN arg_ca_policies :
          /\ "state" \notin DOMAIN arg_ca_policies[i]
          /\ Summaries[i].state = "disabled"

\* ── The source of the last sign-in ───────────────────────────────────────

\* lastSignInDateTime of one source of the input record's activity block
SourceValue(source) ==
    Get(Get(Get(arg_sp, "_signInActivity", EmptyDict), source, EmptyDict), "lastSignInDateTime", TsNone)

\* the value is absent or the empty text
IsEmptyValue(value) == value \in {TsNone, TsEmpty}

\* the first non-empty value in the order interactive, delegated, application
\* (the last one when all are empty)
FirstNonEmptySource ==
    IF ~IsEmptyValue(SourceValue("lastSignInActivity")) THEN SourceValue("lastSignInActivity")
    ELSE IF ~IsEmptyValue(SourceValue("lastDelegatedSignInActivity"))
    THEN SourceValue("lastDelegatedSignInActivity")
    ELSE SourceValue("lastApplicationSignInActivity")

\* C30: the last sign-in analyze_app uses is the first non-empty
\* lastSignInDateTime in the order lastSignInActivity,
\* lastDelegatedSignInActivity, lastApplicationSignInActivity; it is the one
\* reported, and stale and never_signed_in are decided from it alone, not from
\* the most recent of the three.
C30_FirstNonEmptySignIn ==
    Returned =>
        /\ ret_app.last_sign_in = FirstNonEmptySource
        /\ ~InputIsFirstParty =>
              /\ ("never_signed_in" \in SignalKeys) =
                    (ActivityBlockPresent /\ FirstNonEmptySource.tag \notin {"z", "offset"})
              /\ ("stale" \in SignalKeys) =
                    ( /\ FirstNonEmptySource.tag \in {"z", "offset"}
                      /\ (utc_reads[2] - (FirstNonEmptySource.t - FirstNonEmptySource.off))
                            \div TicksPerDay > arg_stale_days )

\* the interactive sign-in is old and the application sign-in recent: the old
\* one is reported and the app is stale
C30_Witness ==
    /\ Returned
    /\ ~InputIsFirstParty
    /\ ~IsEmptyValue(SourceValue("lastSignInActivity"))
    /\ SourceValue("lastApplicationSignInActivity").tag = "z"
    /\ SourceValue("lastApplicationSignInActivity").t > SourceValue("lastSignInActivity").t
    /\ ret_app.last_sign_in = SourceValue("lastSignInActivity")
    /\ "stale" \in SignalKeys

\* ── GraphClient._get: bounded retries ────────────────────────────────────

\* the call is over
GetDone == pc \in {"get_returned", "get_raised"}

\* the statuses of the responses received so far (0 for a network error)
StatusAt(i) == IF get_log[i].kind = "response" THEN get_log[i].status_code ELSE 0

\* C29: every _get call ends after at most MAX_RETRIES (5) requests whatever
\* 429 responses, 5xx responses and network errors come back: it returns the
\* body of the first 200 response or raises, and a 401 or 403 raises
\* PermissionError at once with no further request.
C29_GetTerminates ==
    /\ <>GetDone
    /\ [](get_sent <= MAX_RETRIES /\ Len(get_log) = get_sent)
    /\ [](GetDone => get_outcome # <<>>)
    /\ [](pc = "get_returned" =>
            /\ get_outcome = ReturnedBody
            /\ StatusAt(Len(get_log)) = 200
            /\ \A i \in 1..(Len(get_log) - 1) : StatusAt(i) # 200)
    /\ [](\A i \in DOMAIN get_log :
            StatusAt(i) \in {401, 403} =>
                /\ i = Len(get_log)
                /\ pc = "get_raised"
                /\ get_outcome = Raised("PermissionError"))
    /\ [][GetDone => UNCHANGED get_vars]_vars

\* five requests, every one answered 429: the call raised
C29_Witness ==
    /\ pc = "get_raised"
    /\ get_sent = MAX_RETRIES
    /\ \A i \in DOMAIN get_log : StatusAt(i) = 429
    /\ get_outcome = Raised("RuntimeError")

====
